---- MODULE Spec2Model ----
(***************************************************************************)
(* Model of the xiaoai-cli client: the three-phase login handshake of      *)
(* miai (Login / Xiaoai::login) and of the older mina crate (Mina::login), *)
(* the cookie store shared between the login client and the session, the   *)
(* CLI login command that persists the session, the response envelope and  *)
(* the generic GET/POST request layer.                                     *)
(***************************************************************************)
EXTENDS Integers, Sequences, FiniteSets, TLC

VARIABLES
    impl,       \* which library runs: "miai" (Xiaoai/Login) or "mina" (Mina)
    pc,         \* position of the login call
    creds,      \* [user, password] handed to login
    ret,        \* what login returned: [tag |-> "pending" | "Ok" | "Err" | "panic", ...]
    stores,     \* heap of cookie stores (Arc<CookieStoreMutex>): Seq of cookie sets
    login,      \* the Login value: [client, cookie_store, device_id] or NoLogin
    session,    \* the Xiaoai / Mina value: [client, cookie_store, server] or NoSession
    log,        \* every HTTP request handed to the network, in order
    resp,       \* resp[p]: the response the server gave to phase p, or NoResp
    setByP3,    \* cookies the phase-3 response asked to set
    cliPc,      \* position of the CLI login command (main.rs)
    authFile,   \* content of the auth file
    authFile0,  \* content of the auth file when the command started
    rq,         \* one generic get/post request of a Session
    dc,         \* one device command of a Session (tts, play_url, ...)
    poll,       \* the polling loop Xiaoai::poll_ubus and its owner
    clones,     \* the clones of a Session, their requests and the jar lock
    loaded,     \* the Session that Xiaoai::load / Mina::load returned
    relay,      \* the WebSocket relay: client list, connections, broadcast
    cli         \* the locals of the CLI process: arguments and prompt answers

loginVars == <<impl, pc, creds, ret, stores, login, session, log, resp, setByP3>>
cliVars   == <<cliPc, authFile, authFile0>>
extVars   == <<dc, poll, clones, loaded, relay, cli>>
vars      == <<impl, pc, creds, ret, stores, login, session, log, resp, setByP3,
               cliPc, authFile, authFile0, rq, dc, poll, clones, loaded,
               relay, cli>>

-----------------------------------------------------------------------------
(* Bounds of the model *)

\* number of distinct values the random generator can produce per length
MaxSeed == 2
\* number of distinct values the server uses for each response field
MaxVariant == 2

(* Program constants *)

\* &bytes[11..]
PrefixLen == 11
\* random_id(16) for the deviceId cookie
DeviceIdLen == 16
\* random_id(30) for the request id
RequestIdLen == 30

LOGIN_SERVER == "https://account.xiaomi.com/pass/"
API_SERVER   == "https://api2.mina.mi.com/"
LOGIN_HOST   == "account.xiaomi.com"
API_HOST     == "api2.mina.mi.com"

NoLogin   == [tag |-> "NoLogin"]
NoSession == [tag |-> "NoSession"]
NoResp    == [tag |-> "NoResp"]
Pending   == [tag |-> "pending"]
Ok        == [tag |-> "Ok"]
Err(kind) == [tag |-> "Err", kind |-> kind]
Panic     == [tag |-> "panic"]

Impls == {"miai", "mina"}
Seeds == 1..MaxSeed
Variants == 1..MaxVariant

-----------------------------------------------------------------------------
(* Strings that are built by concatenation are sequences of tokens; the     *)
(* delimiters of a URL are tokens of their own.                             *)

\* index of the first occurrence of token d in s, or 0
RECURSIVE IndexFrom(_, _, _)
IndexFrom(s, d, i) ==
    IF i > Len(s) THEN 0
    ELSE IF s[i] = d THEN i
    ELSE IndexFrom(s, d, i + 1)
IndexOf(s, d) == IndexFrom(s, d, 1)

\* s split at every occurrence of token d
RECURSIVE Split(_, _)
Split(s, d) ==
    LET i == IndexOf(s, d) IN
    IF i = 0 THEN <<s>>
    ELSE <<SubSeq(s, 1, i - 1)>> \o Split(SubSeq(s, i + 1, Len(s)), d)

\* what a URL parser sees in a URL string: origin, path, query pairs
UrlIsAbsolute(u) == Len(u) > 0 /\ u[1] \in {LOGIN_SERVER, API_SERVER}
UrlHost(u) == IF u[1] = LOGIN_SERVER THEN LOGIN_HOST ELSE API_HOST
UrlNoFragment(u) ==
    LET h == IndexOf(u, "#") IN IF h = 0 THEN u ELSE SubSeq(u, 1, h - 1)
UrlPath(u) ==
    LET v == UrlNoFragment(u)
        q == IndexOf(v, "?")
    IN  IF q = 0 THEN v ELSE SubSeq(v, 1, q - 1)
UrlQueryString(u) ==
    LET v == UrlNoFragment(u)
        q == IndexOf(v, "?")
    IN  IF q = 0 THEN <<>> ELSE SubSeq(v, q + 1, Len(v))
\* the key=value pairs of the query, as the receiving server decodes them
UrlQueryPairs(u) ==
    LET parts == Split(UrlQueryString(u), "&")
        pair(p) == LET e == IndexOf(p, "=") IN
                   IF e = 0 THEN <<p, <<>>>>
                   ELSE <<SubSeq(p, 1, e - 1), SubSeq(p, e + 1, Len(p))>>
    IN  { pair(parts[i]) : i \in { j \in 1..Len(parts) : parts[j] # <<>> } }

-----------------------------------------------------------------------------
(* Random identifiers and digests *)

\* the text of a random alphanumeric string of the given length
RandStr(len, seed, upper) ==
    "rand" \o ToString(len) \o (IF upper THEN "U" ELSE "m") \o ToString(seed)

\* util::random_id / mina.rs random_id: the strings it can return
random_id(len) == { [len |-> len, seed |-> k, upper |-> FALSE] : k \in Seeds }
make_ascii_uppercase(id) == [id EXCEPT !.upper = TRUE]
IdText(id) == RandStr(id.len, id.seed, id.upper)

hash_password(password) == "UPPER(hex(md5(" \o password \o ")))"

\* a digest input that puts the ssecurity before the nonce
client_sign_input_swapped(nonce, ssecurity) ==
    ssecurity \o "&" \o "nonce=" \o ToString(nonce)
\* client_sign lines 164-169: the four updates of the hasher, in order
client_sign_input(nonce, ssecurity) == "nonce=" \o ToString(nonce) \o "&" \o ssecurity
client_sign(auth) ==
    "base64(sha1(" \o client_sign_input(auth.nonce, auth.ssecurity) \o "))"

-----------------------------------------------------------------------------
(* Cookie store *)

\* a cookie of the store; expires is CookieExpiration: "SessionEnd" (no expiry
\* given: a session-only, non-persistent cookie), or a time that is past or not
CookieWith(domain, name, value, expires) ==
    [domain |-> domain, name |-> name, value |-> value, expires |-> expires]
Expirations == {"SessionEnd", "AtUtc_past", "AtUtc_future"}
is_expired(c)    == c.expires = "AtUtc_past"
is_persistent(c) == c.expires # "SessionEnd"

\* RawCookie::new(name, value) and a Set-Cookie without Expires / Max-Age
Cookie(domain, name, value) == CookieWith(domain, name, value, "SessionEnd")

\* CookieStore::insert: a cookie replaces the one of the same domain and name
StoreInsert(S, c) ==
    { x \in S : ~(x.domain = c.domain /\ x.name = c.name) } \cup {c}

RECURSIVE StoreInsertAll(_, _)
StoreInsertAll(S, cs) ==
    IF cs = {} THEN S
    ELSE LET c == CHOOSE x \in cs : TRUE IN StoreInsertAll(StoreInsert(S, c), cs \ {c})

\* the cookies a client bound to store S attaches to a request for host
CookiesFor(S, host) == { c \in S : c.domain = host /\ ~is_expired(c) }

\* Cookie::parse of a Set-Cookie style string "n1=v1; n2=v2; ...": the first
\* pair is the cookie, every later pair is an attribute (Domain, Path,
\* Max-Age, ...); a pair that names no known attribute is dropped.
Cookie_parse(segs, host) ==
    LET doms == { i \in 2..Len(segs) : segs[i][1] = "Domain" } IN
    Cookie(IF doms = {} THEN host ELSE segs[CHOOSE i \in doms : TRUE][2],
           segs[1][1], segs[1][2])

\* Login::new, lines 38-46: one insert_raw per (name, value)
Login_new_cookies(device_id) ==
    StoreInsert(StoreInsert({}, Cookie(LOGIN_HOST, "sdkVersion", "3.9")),
                Cookie(LOGIN_HOST, "deviceId", IdText(device_id)))

\* Mina::login, lines 46-54: one Cookie::parse of "sdkVersion=3.9; deviceId=.."
Mina_login_cookies(device_id) ==
    StoreInsert({}, Cookie_parse(<< <<"sdkVersion", "3.9">>,
                                    <<"deviceId", IdText(device_id)>> >>, LOGIN_HOST))

-----------------------------------------------------------------------------
(* Response bodies of the login endpoints *)

LoginFields == {"qs", "sid", "_sign", "callback"}
AuthFields  == {"location", "nonce", "ssecurity"}

Empty      == [kind |-> "empty"]
Garbage(n) == [kind |-> "garbage", len |-> n]
Object(o)  == [kind |-> "object", obj |-> o]

PayloadLen(p) ==
    CASE p.kind = "empty"   -> 0
      [] p.kind = "garbage" -> p.len
      [] p.kind = "object"  -> 2 + 6 * Cardinality(DOMAIN p.obj)

\* a body: `pre` bytes that are not JSON, followed by the payload
BodyLen(b) == b.pre + PayloadLen(b.payload)

\* &bytes[11..]: panics when the body is shorter than the prefix
SliceOk(b) == BodyLen(b) >= PrefixLen
Slice(b) ==
    IF b.pre = PrefixLen THEN b.payload
    ELSE IF BodyLen(b) = PrefixLen THEN Empty
    ELSE Garbage(BodyLen(b) - PrefixLen)

\* serde_json::from_slice::<Value>
IsJson(p) == p.kind = "object"
\* deserialization into LoginResponse / AuthResponse: every field is required
IsLoginResponse(p) == IsJson(p) /\ LoginFields \subseteq DOMAIN p.obj
IsAuthResponse(p)  == IsJson(p) /\ AuthFields \subseteq DOMAIN p.obj

\* the location URLs the server may answer with
LocWithQuery == <<API_SERVER, "sts", "?", "d", "=", "x">>
LocNoQuery   == <<API_SERVER, "sts">>
LocRelative  == <<"sts", "?", "d", "=", "x">>
Locations    == {LocWithQuery, LocNoQuery, LocRelative}

P1Object(F, v) == [f \in F |-> f \o ToString(v)]
P1Payloads ==
    {Empty, Garbage(3), Garbage(8)}
    \cup { Object(P1Object(LoginFields, v)) : v \in Variants }
    \cup { Object(P1Object(LoginFields \ {f}, 1)) : f \in LoginFields }
    \cup { Object(P1Object({}, 1)) }

P2Object(F, loc, v) ==
    [f \in F |-> CASE f = "location"  -> loc
                   [] f = "nonce"     -> v
                   [] f = "ssecurity" -> "ssec" \o ToString(v)]
P2Payloads ==
    {Empty, Garbage(3), Garbage(8)}
    \cup { Object(P2Object(AuthFields, loc, v)) : loc \in Locations, v \in Variants }
    \cup { Object(P2Object(AuthFields \ {f}, LocWithQuery, 1)) : f \in AuthFields }

P3Payloads == {Empty, Garbage(3), Object(P1Object({}, 1))}

Prefixes == {0, 5, PrefixLen, PrefixLen + 1}
Statuses == {"2xx", "non2xx"}

\* the responses the server can give to phase p; a transport failure has no
\* status, no body and sets no cookie
SetCookieName(p) == IF p = 3 THEN "serviceToken" ELSE "passToken"
Responses(p) ==
    { [tag |-> "neterr"] }
    \cup { [tag |-> "http", status |-> st, body |-> [pre |-> n, payload |-> pl],
            setCookie |-> sc] :
           st \in Statuses,
           n \in (IF p = 3 THEN {0} ELSE Prefixes),
           pl \in (CASE p = 1 -> P1Payloads [] p = 2 -> P2Payloads [] p = 3 -> P3Payloads),
           sc \in { {} } \cup { { <<SetCookieName(p), "tok" \o ToString(v)>> } : v \in Variants } }

-----------------------------------------------------------------------------
(* The login handshake: Login::new, Login::login, Login::auth,              *)
(* Login::get_token and Xiaoai::from_login, driven by Xiaoai::login; the    *)
(* same steps written inline in Mina::login.                                *)

Request(phase, method, url, form, cookies) ==
    [phase |-> phase, method |-> method, url |-> url, form |-> form, cookies |-> cookies]

NoForm == <<>>

\* the jar of the client that performs the handshake
LoginJar == stores[login.client]

\* url with the pair key=value added to its query, in front of any fragment
\* (Url::parse_with_params, query_pairs_mut().extend_pairs)
AppendQueryPair(u, key, value) ==
    LET h    == IndexOf(u, "#")
        head == IF h = 0 THEN u ELSE SubSeq(u, 1, h - 1)
        frag == IF h = 0 THEN <<>> ELSE SubSeq(u, h, Len(u))
        q    == IndexOf(head, "?")
        sep  == IF q = 0 THEN <<"?">>
                ELSE IF q = Len(head) THEN <<>>
                ELSE <<"&">>
    IN  head \o sep \o <<key, "=", value>> \o frag

\* Login::login line 70 / Mina::login line 63
Phase1Url == <<LOGIN_SERVER, "serviceLogin", "?", "sid", "=", "micoapi",
               "&", "_json", "=", "true">>
\* Login::auth line 99 / Mina::login line 83
Phase2Url == <<LOGIN_SERVER, "serviceLoginAuth2">>

\* Login::auth lines 88-96 / Mina::login lines 72-81
AuthForm(login_response, user, hash) ==
    [k \in {"_json", "qs", "sid", "_sign", "callback", "user", "hash"} |->
        CASE k = "_json" -> "true"
          [] k = "user"  -> user
          [] k = "hash"  -> hash
          [] OTHER       -> login_response[k]]

\* Login::get_token lines 117-118: Url::parse_with_params(location, clientSign)
Login_token_url(auth) == AppendQueryPair(auth.location, "clientSign", client_sign(auth))
\* Mina::login lines 94-99: format!("{}&clientSign={}", location, encode(sign))
Mina_token_url(auth) == auth.location \o <<"&", "clientSign", "=", client_sign(auth)>>

\* Login_login_result without .error_for_status()
Login_login_result_nostatus(r) ==
    IF r.tag = "neterr" THEN Err("Request")
    ELSE IF ~SliceOk(r.body) THEN Panic
    ELSE IF ~IsJson(Slice(r.body)) THEN Err("Parse")
    ELSE IF ~IsLoginResponse(Slice(r.body)) THEN Err("Parse")
    ELSE Ok

\* Login_login_result that parses the body as an untyped Value only
Login_login_result_untyped(r) ==
    IF r.tag = "neterr" THEN Err("Request")
    ELSE IF r.status # "2xx" THEN Err("Request")
    ELSE IF ~SliceOk(r.body) THEN Panic
    ELSE IF ~IsJson(Slice(r.body)) THEN Err("Parse")
    ELSE Ok

\* Login::login lines 68-80 with the LoginResponse that Login::auth takes /
\* Mina::login lines 62-69: send().await?.error_for_status()?.bytes().await?,
\* &bytes[11..], serde_json::from_slice
Login_login_result(r) ==
    IF r.tag = "neterr" THEN Err("Request")
    ELSE IF r.status # "2xx" THEN Err("Request")
    ELSE IF ~SliceOk(r.body) THEN Panic
    ELSE IF ~IsJson(Slice(r.body)) THEN Err("Parse")
    ELSE IF ~IsLoginResponse(Slice(r.body)) THEN Err("Parse")
    ELSE Ok

\* Login_auth_result without .error_for_status()
Login_auth_result_nostatus(r) ==
    IF r.tag = "neterr" THEN Err("Request")
    ELSE IF ~SliceOk(r.body) THEN Panic
    ELSE IF ~IsJson(Slice(r.body)) THEN Err("Parse")
    ELSE IF ~IsAuthResponse(Slice(r.body)) THEN Err("Parse")
    ELSE Ok

\* Login::auth lines 97-109 with the AuthResponse that Login::get_token takes /
\* Mina::login lines 82-90
Login_auth_result(r) ==
    IF r.tag = "neterr" THEN Err("Request")
    ELSE IF r.status # "2xx" THEN Err("Request")
    ELSE IF ~SliceOk(r.body) THEN Panic
    ELSE IF ~IsJson(Slice(r.body)) THEN Err("Parse")
    ELSE IF ~IsAuthResponse(Slice(r.body)) THEN Err("Parse")
    ELSE Ok

\* Login::get_token lines 119-126: send, error_for_status, json::<Value>
Login_token_result(r) ==
    IF r.tag = "neterr" THEN Err("Request")
    ELSE IF r.status # "2xx" THEN Err("Request")
    ELSE IF ~(r.body.pre = 0 /\ IsJson(r.body.payload)) THEN Err("Parse")
    ELSE Ok
\* Mina::login lines 100-106: send, error_for_status, text
Mina_token_result(r) ==
    IF r.tag = "neterr" THEN Err("Request")
    ELSE IF r.status # "2xx" THEN Err("Request")
    ELSE Ok

\* the client stores the cookies of every response it receives
StoreResponseCookies(S, r, host) ==
    IF r.tag = "neterr" THEN S
    ELSE StoreInsertAll(S, { Cookie(host, sc[1], sc[2]) : sc \in r.setCookie })

LoginResponseOf(r) == Slice(r.body).obj
AuthResponseOf(r)  == Slice(r.body).obj

\* Login::new / Mina::login lines 43-60
Login_new ==
    /\ pc = "start"
    /\ \E r \in random_id(DeviceIdLen) :
         LET device_id == make_ascii_uppercase(r)
             jar == IF impl = "miai" THEN Login_new_cookies(device_id)
                    ELSE Mina_login_cookies(device_id)
         IN  /\ stores' = Append(stores, jar)
             /\ login' = [client |-> Len(stores) + 1, cookie_store |-> Len(stores) + 1,
                          device_id |-> device_id,
                          username |-> creds.user,
                          password_hash |-> hash_password(creds.password)]
    /\ pc' = "phase1"
    /\ UNCHANGED <<impl, creds, ret, session, log, resp, setByP3, cliVars, rq, extVars>>

\* Login::login up to send().await / Mina::login lines 62-64
Login_login_send ==
    /\ pc = "phase1"
    /\ log' = Append(log, Request(1, "GET", Phase1Url, NoForm,
                                  CookiesFor(LoginJar, LOGIN_HOST)))
    /\ pc' = "wait1"
    /\ UNCHANGED <<impl, creds, ret, stores, login, session, resp, setByP3, cliVars, rq, extVars>>

\* Login_login_recv that sends phase 1 again after a failure
Login_login_recv_retry ==
    /\ pc = "wait1"
    /\ \E r \in Responses(1) :
         LET res == Login_login_result(r) IN
         /\ resp' = [resp EXCEPT ![1] = r]
         /\ stores' = [stores EXCEPT ![login.client] =
                          StoreResponseCookies(@, r, LOGIN_HOST)]
         /\ IF res = Ok
            THEN pc' = "phase2" /\ ret' = ret
            ELSE IF Len(log) < 2
            THEN pc' = "phase1" /\ ret' = ret
            ELSE pc' = "done" /\ ret' = res
    /\ UNCHANGED <<impl, creds, login, session, log, setByP3, cliVars, rq, extVars>>

\* Login::login after send().await, and the LoginResponse Login::auth takes
Login_login_recv ==
    /\ pc = "wait1"
    /\ \E r \in Responses(1) :
         LET res == Login_login_result(r) IN
         /\ resp' = [resp EXCEPT ![1] = r]
         /\ stores' = [stores EXCEPT ![login.client] =
                          StoreResponseCookies(@, r, LOGIN_HOST)]
         /\ IF res = Ok
            THEN pc' = "phase2" /\ ret' = ret
            ELSE pc' = "done" /\ ret' = res
    /\ UNCHANGED <<impl, creds, login, session, log, setByP3, cliVars, rq, extVars>>

\* Login::auth up to send().await / Mina::login lines 72-85
Login_auth_send ==
    /\ pc = "phase2"
    /\ log' = Append(log, Request(2, "POST", Phase2Url,
                                  AuthForm(LoginResponseOf(resp[1]), login.username,
                                           login.password_hash),
                                  CookiesFor(LoginJar, LOGIN_HOST)))
    /\ pc' = "wait2"
    /\ UNCHANGED <<impl, creds, ret, stores, login, session, resp, setByP3, cliVars, rq, extVars>>

\* Login::auth after send().await, and the AuthResponse Login::get_token takes
Login_auth_recv ==
    /\ pc = "wait2"
    /\ \E r \in Responses(2) :
         LET res == Login_auth_result(r) IN
         /\ resp' = [resp EXCEPT ![2] = r]
         /\ stores' = [stores EXCEPT ![login.client] =
                          StoreResponseCookies(@, r, LOGIN_HOST)]
         /\ IF res = Ok
            THEN pc' = "phase3" /\ ret' = ret
            ELSE pc' = "done" /\ ret' = res
    /\ UNCHANGED <<impl, creds, login, session, log, setByP3, cliVars, rq, extVars>>

\* Login::get_token up to send().await / Mina::login lines 94-102. A location
\* that is no absolute URL fails in Url::parse_with_params (miai) or in the
\* request builder (mina); nothing is sent.
Login_get_token_send ==
    /\ pc = "phase3"
    /\ LET auth == AuthResponseOf(resp[2])
           url  == IF impl = "miai" THEN Login_token_url(auth) ELSE Mina_token_url(auth)
       IN  IF UrlIsAbsolute(auth.location)
           THEN /\ log' = Append(log, Request(3, "GET", url, NoForm,
                                              CookiesFor(LoginJar, UrlHost(url))))
                /\ pc' = "wait3"
                /\ ret' = ret
           ELSE /\ log' = log
                /\ pc' = "done"
                /\ ret' = IF impl = "miai" THEN Err("Url") ELSE Err("Request")
    /\ UNCHANGED <<impl, creds, stores, login, session, resp, setByP3, cliVars, rq, extVars>>

\* Login::get_token after send().await / Mina::login lines 103-107
Login_get_token_recv ==
    /\ pc = "wait3"
    /\ \E r \in Responses(3) :
         LET res  == IF impl = "miai" THEN Login_token_result(r) ELSE Mina_token_result(r)
             host == UrlHost(log[Len(log)].url)
         IN
         /\ resp' = [resp EXCEPT ![3] = r]
         /\ stores' = [stores EXCEPT ![login.client] = StoreResponseCookies(@, r, host)]
         /\ setByP3' = IF r.tag = "neterr" THEN {}
                       ELSE { Cookie(host, sc[1], sc[2]) : sc \in r.setCookie }
         /\ IF res = Ok
            THEN pc' = "build" /\ ret' = ret
            ELSE pc' = "done" /\ ret' = res
    /\ UNCHANGED <<impl, creds, login, session, log, cliVars, rq, extVars>>

\* the store the session is built on: Login::into_cookie_store hands over the
\* Arc of the login client (Mina::login clones the Arc)
SessionStore == login.cookie_store

\* from_login that builds the session on a copy of the login's cookies
from_login_copy ==
    /\ pc = "build"
    /\ stores' = Append(stores, stores[login.cookie_store])
    /\ session' = [client |-> Len(stores) + 1, cookie_store |-> Len(stores) + 1,
                   server |-> API_SERVER]
    /\ ret' = Ok
    /\ pc' = "done"
    /\ UNCHANGED <<impl, creds, login, log, resp, setByP3, cliVars, rq, extVars>>

\* Xiaoai::from_login / Mina::login lines 109-118
from_login ==
    /\ pc = "build"
    /\ session' = [client |-> SessionStore, cookie_store |-> SessionStore,
                   server |-> API_SERVER]
    /\ ret' = Ok
    /\ pc' = "done"
    /\ UNCHANGED <<impl, creds, stores, login, log, resp, setByP3, cliVars, rq, extVars>>

\* the first API request of the returned session (device_list): its cookies
\* are those its client's store holds for the API host
Session_first_request ==
    /\ pc = "done"
    /\ session # NoSession
    /\ \A i \in 1..Len(log) : log[i].phase # 4
    /\ log' = Append(log, Request(4, "GET", <<API_SERVER, "admin/v2/device_list">>, NoForm,
                                  CookiesFor(stores[session.client], API_HOST)))
    /\ UNCHANGED <<impl, pc, creds, ret, stores, login, session, resp, setByP3, cliVars, rq, extVars>>

-----------------------------------------------------------------------------
(* The CLI login command, cli/src/main.rs lines 15-36 *)

Absent     == [tag |-> "absent"]
Truncated  == [tag |-> "truncated"]
File(data) == [tag |-> "file", data |-> data]

\* the JSON object of one cookie (cookie_store's Cookie: raw_cookie is the
\* text "name=value", domain and expires are tagged values) and its parse
Serialize(c) ==
    [raw_cookie |-> <<c.name, "=", c.value>>, path |-> "/",
     domain |-> [HostOnly |-> c.domain], expires |-> c.expires]
Deserialize(j) ==
    CookieWith(j.domain.HostOnly, j.raw_cookie[1], j.raw_cookie[3], j.expires)

\* cookie_store::serde::json::save: only unexpired, persistent cookies
save_unexpired_persistent(S) ==
    { Serialize(c) : c \in { x \in S : ~is_expired(x) /\ is_persistent(x) } }

\* cookie_store::serde::json::save_incl_expired_and_nonpersistent
save_incl_expired_and_nonpersistent(S) == { Serialize(c) : c \in S }

\* cookie_store::serde::json::load_all: CookieStore::from_cookies(.., true)
load_all(cookies) == StoreInsertAll({}, { Deserialize(j) : j \in cookies })

\* Xiaoai::save / Mina::save: the text written to the writer
save(S) == [format |-> "json", cookies |-> save_incl_expired_and_nonpersistent(S)]

OldFile == File(save({Cookie(API_HOST, "serviceToken", "old")}))

NoCreds == [user |-> "", password |-> ""]
Creds == { [user |-> "user", password |-> "pw" \o ToString(v)] : v \in Variants }

\* CliPrompt that opens the auth file for writing before logging in
CliPrompt_create_first ==
    /\ cliPc = "prompt"
    /\ \/ /\ cliPc' = "exit_err"
          /\ UNCHANGED <<creds, pc, authFile, relay, cli>>
       \/ /\ \E c \in Creds : creds' = c
          /\ pc' = "start"
          /\ cliPc' = "login"
          /\ authFile' = Truncated
    /\ UNCHANGED <<impl, ret, stores, login, session, log, resp, setByP3,
                   authFile0, rq, extVars>>

\* lines 16-22: the two prompts; a cancelled prompt ends the command
CliPrompt ==
    /\ cliPc = "prompt"
    /\ \/ /\ cliPc' = "exit_err"
          /\ UNCHANGED <<creds, pc, relay, cli>>
       \/ /\ \E c \in Creds : creds' = c
          /\ pc' = "start"
          /\ cliPc' = "login"
    /\ UNCHANGED <<impl, ret, stores, login, session, log, resp, setByP3,
                   authFile, authFile0, rq, extVars>>

\* line 23: Xiaoai::login(..).await?
CliLoginReturned ==
    /\ cliPc = "login"
    /\ pc = "done"
    /\ cliPc' = CASE ret.tag = "Ok"    -> "can_save"
                  [] ret.tag = "Err"   -> "exit_err"
                  [] ret.tag = "panic" -> "aborted"
    /\ UNCHANGED <<loginVars, authFile, authFile0, rq, extVars>>

\* the answer of Confirm::new(..).prompt()
Confirmed(answer) == [tag |-> "confirm", answer |-> answer]

\* a login command that saves whatever the answer is
CliCanSave_ignore_answer ==
    /\ cliPc = "can_save"
    /\ IF authFile # Absent
       THEN \E answer \in {"yes", "no", "cancelled"} :
              /\ cli' = Confirmed(answer)
              /\ cliPc' = CASE answer \in {"yes", "no"} -> "save"
                            [] OTHER                   -> "exit_err"
       ELSE cliPc' = "save" /\ cli' = cli
    /\ UNCHANGED <<loginVars, authFile, authFile0, rq, dc, poll, clones, loaded, relay>>

\* lines 25-29: ask before overwriting an existing file
CliCanSave ==
    /\ cliPc = "can_save"
    /\ IF authFile # Absent
       THEN \E answer \in {"yes", "no", "cancelled"} :
              /\ cli' = Confirmed(answer)
              /\ cliPc' = CASE answer = "yes" -> "save"
                            [] answer = "no"  -> "exit_ok"
                            [] OTHER          -> "exit_err"
       ELSE cliPc' = "save" /\ cli' = cli
    /\ UNCHANGED <<loginVars, authFile, authFile0, rq, dc, poll, clones, loaded, relay>>

\* lines 31-35: File::create truncates the file, save writes the cookies
CliSave ==
    /\ cliPc = "save"
    /\ \E io \in {"ok", "create_failed", "write_failed"} :
         CASE io = "ok" ->
                /\ authFile' = File(save(stores[session.cookie_store]))
                /\ cliPc' = "exit_ok"
           [] io = "create_failed" ->
                /\ authFile' = authFile
                /\ cliPc' = "exit_err"
           [] io = "write_failed" ->
                /\ authFile' = Truncated
                /\ cliPc' = "exit_err"
    /\ UNCHANGED <<loginVars, authFile0, rq, extVars>>

-----------------------------------------------------------------------------
RqIdle == [tag |-> "idle"]
Idle   == [tag |-> "idle"]
\* the parts of the state a specification leaves alone
ExtIdle ==
    /\ dc = Idle /\ poll = Idle /\ clones = Idle /\ loaded = NoSession
    /\ relay = Idle /\ cli = Idle

InitLogin ==
    /\ impl \in Impls
    /\ cliPc \in (IF impl = "miai" THEN {"lib", "prompt"} ELSE {"lib"})
    /\ creds \in (IF cliPc = "lib" THEN Creds ELSE {NoCreds})
    /\ pc = (IF cliPc = "lib" THEN "start" ELSE "idle")
    /\ ret = Pending
    /\ stores = <<>>
    /\ login = NoLogin
    /\ session = NoSession
    /\ log = <<>>
    /\ resp = [p \in 1..3 |-> NoResp]
    /\ setByP3 = {}
    /\ authFile \in (IF cliPc = "lib" THEN {Absent} ELSE {Absent, OldFile})
    /\ authFile0 = authFile
    /\ rq = RqIdle
    /\ ExtIdle

NextLogin ==
    \/ Login_new
    \/ Login_login_send
    \/ Login_login_recv
    \/ Login_auth_send
    \/ Login_auth_recv
    \/ Login_get_token_send
    \/ Login_get_token_recv
    \/ from_login
    \/ Session_first_request
    \/ CliPrompt
    \/ CliLoginReturned
    \/ CliCanSave
    \/ CliSave

SpecLogin == InitLogin /\ [][NextLogin]_vars

-----------------------------------------------------------------------------
(* The response envelope and the generic request layer: XiaoaiResponse,     *)
(* Xiaoai::get / Xiaoai::post; MinaResponse, Mina::get / Mina::post and     *)
(* their callers Mina::devices / MinaDevice::ubus.                          *)

Codes    == (0 - MaxVariant)..MaxVariant
Messages == {"ok", "failed"}
Datas    == {"null", "data"}

EnvelopeFields == {"code", "message", "data"}
EnvelopeObject(code, message, data) ==
    [f \in EnvelopeFields |-> CASE f = "code"    -> code
                                [] f = "message" -> message
                                [] f = "data"    -> data]
ApiPayloads ==
    {Empty, Garbage(3)}
    \cup { Object(EnvelopeObject(c, m, d)) : c \in Codes, m \in Messages, d \in Datas }
    \cup { Object([f \in EnvelopeFields \ {g} |-> EnvelopeObject(0, "ok", "data")[f]]) :
             g \in EnvelopeFields }
ApiResponses ==
    { [tag |-> "neterr"] }
    \cup { [tag |-> "http", status |-> st, body |-> [pre |-> 0, payload |-> pl]] :
           st \in Statuses, pl \in ApiPayloads }

\* serde_json::Number of a JSON integer, and Number::from_i128
Number(k) == IF k >= 0 THEN [N |-> "PosInt", v |-> k] ELSE [N |-> "NegInt", v |-> k]
Number_from_i128(k) == Number(k)

\* Response::json::<XiaoaiResponse> / ::<MinaResponse>: all three fields are required
IsEnvelope(b) == b.pre = 0 /\ IsJson(b.payload) /\ EnvelopeFields \subseteq DOMAIN b.payload.obj
XiaoaiResponse(b) ==
    [code |-> b.payload.obj["code"], message |-> b.payload.obj["message"],
     data |-> b.payload.obj["data"]]
MinaResponse(b) ==
    [code |-> Number(b.payload.obj["code"]), message |-> b.payload.obj["message"],
     data |-> b.payload.obj["data"]]

OkOf(v) == [tag |-> "Ok", value |-> v]

\* error_for_code that accepts every non-negative code
XiaoaiResponse_error_for_code_nonneg(e) ==
    IF e.code >= 0 THEN OkOf(e) ELSE [tag |-> "Err", kind |-> "Api", value |-> e]

\* XiaoaiResponse::error_for_code
XiaoaiResponse_error_for_code(e) ==
    IF e.code = 0 THEN OkOf(e) ELSE [tag |-> "Err", kind |-> "Api", value |-> e]

\* MinaResponse::error_for_code
MinaResponse_error_for_code(e) ==
    IF e.code = Number_from_i128(0) THEN OkOf(e)
    ELSE [tag |-> "Err", kind |-> "Server", code |-> e.code, message |-> e.message]

\* Xiaoai_result without .error_for_code()
Xiaoai_result_nocode(r) ==
    IF r.tag = "neterr" THEN Err("Request")
    ELSE IF r.status # "2xx" THEN Err("Request")
    ELSE IF ~IsEnvelope(r.body) THEN Err("Request")
    ELSE OkOf(XiaoaiResponse(r.body))

\* Xiaoai::get lines 79-87, Xiaoai::post lines 103-112:
\* send().await?.error_for_status()?.json::<XiaoaiResponse>().await?.error_for_code()?
Xiaoai_result(r) ==
    IF r.tag = "neterr" THEN Err("Request")
    ELSE IF r.status # "2xx" THEN Err("Request")
    ELSE IF ~IsEnvelope(r.body) THEN Err("Request")
    ELSE XiaoaiResponse_error_for_code(XiaoaiResponse(r.body))

\* Mina::get line 148, Mina::post line 164: self.client.get(url).send().await
Mina_result(r) ==
    IF r.tag = "neterr" THEN Err("Request")
    ELSE OkOf([status |-> r.status, body |-> r.body])

\* Mina::devices lines 125-131, MinaDevice::ubus lines 44-50:
\* .await?.error_for_status()?.json::<MinaResponse>().await?.error_for_code()
Mina_validated(res) ==
    IF res.tag = "Err" THEN res
    ELSE IF res.value.status # "2xx" THEN Err("Request")
    ELSE IF ~IsEnvelope(res.value.body) THEN Err("Request")
    ELSE MinaResponse_error_for_code(MinaResponse(res.value.body))

\* random_request_id (xiaoai.rs) / "app_ios_{request_id}" (mina.rs)
random_request_id == { "app_ios_" \o IdText(id) : id \in random_id(RequestIdLen) }

\* Xiaoai::get lines 77-78: Url::parse_with_params(server.join(uri), requestId)
Xiaoai_get_url(uri, request_id) ==
    AppendQueryPair(<<API_SERVER>> \o uri, "requestId", request_id)
\* Mina::get line 146: format!("{URL}{relative_url}&requestId=app_ios_{request_id}")
Mina_get_url(relative_url, request_id) ==
    <<API_SERVER>> \o relative_url \o <<"&", "requestId", "=", request_id>>

\* HashMap::insert: form.insert("requestId", ..)
form_insert(form, key, value) ==
    [k \in DOMAIN form \cup {key} |-> IF k = key THEN value ELSE form[k]]

Uris == { <<"admin/v2/device_list", "?", "master", "=", "0">>,
          <<"admin/v2/device_list">>,
          <<"admin/v2/device_list", "?", "master", "=", "0", "#", "top">> }
UbusForm ==
    [k \in {"deviceId", "method", "path", "message"} |->
        CASE k = "deviceId" -> "dev1"
          [] k = "method"   -> "text_to_speech"
          [] k = "path"     -> "mibrain"
          [] k = "message"  -> "{text}"]
Forms == { UbusForm, form_insert(UbusForm, "requestId", "callers_id") }

\* Xiaoai::get / Mina::get up to send().await
Session_get_send ==
    /\ rq = RqIdle
    /\ \E uri \in Uris, id \in random_request_id :
         LET url == IF impl = "miai" THEN Xiaoai_get_url(uri, id) ELSE Mina_get_url(uri, id)
         IN  rq' = [tag |-> "sent", op |-> "get", uri |-> uri, form |-> NoForm,
                    request_id |-> id,
                    wire |-> Request(0, "GET", url, NoForm,
                                     CookiesFor(stores[session.client], API_HOST))]
    /\ UNCHANGED <<loginVars, cliVars, extVars>>

\* Xiaoai::post / Mina::post up to send().await
Session_post_send ==
    /\ rq = RqIdle
    /\ \E form \in Forms, id \in random_request_id :
         rq' = [tag |-> "sent", op |-> "post", uri |-> <<"remote/ubus">>, form |-> form,
                request_id |-> id,
                wire |-> Request(0, "POST", <<API_SERVER, "remote/ubus">>,
                                 form_insert(form, "requestId", id),
                                 CookiesFor(stores[session.client], API_HOST))]
    /\ UNCHANGED <<loginVars, cliVars, extVars>>

\* the rest of get / post, and for mina the checks of the caller
Session_recv ==
    /\ rq.tag = "sent"
    /\ \E r \in ApiResponses :
         LET res == IF impl = "miai" THEN Xiaoai_result(r) ELSE Mina_result(r) IN
         rq' = [tag |-> "returned", op |-> rq.op, uri |-> rq.uri, form |-> rq.form,
                request_id |-> rq.request_id, wire |-> rq.wire,
                response |-> r,
                result |-> res,
                validated |-> IF impl = "miai" THEN res ELSE Mina_validated(res)]
    /\ UNCHANGED <<loginVars, cliVars, extVars>>

\* the caller drops the result; the session is ready for the next request
Session_next ==
    /\ rq.tag = "returned"
    /\ rq' = RqIdle
    /\ UNCHANGED <<loginVars, cliVars, extVars>>

InitRequest ==
    /\ impl \in Impls
    /\ cliPc = "lib"
    /\ creds = NoCreds
    /\ pc = "done"
    /\ ret = Ok
    /\ stores = << {Cookie(API_HOST, "serviceToken", "tok1")} >>
    /\ login = NoLogin
    /\ session = [client |-> 1, cookie_store |-> 1, server |-> API_SERVER]
    /\ log = <<>>
    /\ resp = [p \in 1..3 |-> NoResp]
    /\ setByP3 = {}
    /\ authFile = Absent
    /\ authFile0 = Absent
    /\ rq = RqIdle
    /\ ExtIdle

NextRequest ==
    \/ Session_get_send
    \/ Session_post_send
    \/ Session_recv
    \/ Session_next

SpecRequest == InitRequest /\ [][NextRequest]_vars

-----------------------------------------------------------------------------
(* Properties of the login handshake *)

PhasesSent == { log[i].phase : i \in 1..Len(log) }
Sent(p) == p \in PhasesSent
Http2xx(p) == resp[p] # NoResp /\ resp[p].tag = "http" /\ resp[p].status = "2xx"
\* the body of the response to phase p is the 11-byte prefix followed by a
\* JSON object that has every field of F
EnvelopeHas(p, F) ==
    /\ resp[p].body.pre = PrefixLen
    /\ resp[p].body.payload.kind = "object"
    /\ F \subseteq DOMAIN resp[p].body.payload.obj

\* C1: the requests of a login are sent in the order phase 1 (GET
\* serviceLogin), phase 2 (POST serviceLoginAuth2), phase 3 (GET location with
\* clientSign), none skipped or repeated; phase 2 is sent only after phase 1
\* returned 2xx with its fields, phase 3 only after phase 2 returned 2xx with
\* its fields, and a Session is returned only after phase 3 returned 2xx.
C1_PhaseOrder ==
    /\ \A i \in 1..Len(log) : log[i].phase = i
    /\ Sent(1) => log[1].method = "GET" /\ UrlPath(log[1].url) = <<LOGIN_SERVER, "serviceLogin">>
    /\ Sent(2) => /\ log[2].method = "POST"
                  /\ UrlPath(log[2].url) = <<LOGIN_SERVER, "serviceLoginAuth2">>
                  /\ Http2xx(1) /\ EnvelopeHas(1, LoginFields)
    /\ Sent(3) => /\ log[3].method = "GET"
                  /\ "clientSign" \in { log[3].url[j] : j \in 1..Len(log[3].url) }
                  /\ Http2xx(2) /\ EnvelopeHas(2, AuthFields)
    /\ (session # NoSession \/ ret = Ok) =>
            /\ {1, 2, 3} \subseteq PhasesSent
            /\ Http2xx(3)
            /\ session # NoSession /\ ret = Ok

C1_Witness == ret = Ok /\ session # NoSession /\ Len(log) >= 3

\* the stripped body of the response to phase p does not parse as JSON
ParseFails(p) ==
    /\ BodyLen(resp[p].body) >= PrefixLen
    /\ ~(resp[p].body.pre = PrefixLen /\ resp[p].body.payload.kind = "object")
FailedHttp(p) ==
    /\ resp[p] # NoResp
    /\ resp[p].tag = "http"
    /\ (resp[p].status = "non2xx" \/ ParseFails(p))

Phase1MissingField ==
    /\ Http2xx(1)
    /\ resp[1].body.pre = PrefixLen
    /\ resp[1].body.payload.kind = "object"
    /\ ~(LoginFields \subseteq DOMAIN resp[1].body.payload.obj)

\* C3: a login whose phase-1 response is 2xx JSON lacking one of qs, sid,
\* _sign, callback fails before phase 2: it has returned an error and no POST
\* is ever sent.
C3_MissingFieldNoPost ==
    Phase1MissingField =>
        /\ pc = "done"
        /\ ret.tag = "Err"
        /\ \A i \in 1..Len(log) : log[i].method # "POST"

C3_Witness ==
    /\ Phase1MissingField
    /\ DOMAIN resp[1].body.payload.obj = LoginFields \ {"callback"}
    /\ pc = "done"

TimesSent(p) == Cardinality({ i \in 1..Len(log) : log[i].phase = p })
Received(p) == resp[p] # NoResp

\* C4: within one login each phase request is sent at most once; after a
\* failure nothing is sent again; the phase-2 form carries exactly the fields
\* of the phase-1 response of this login, and the phase-3 URL is the location
\* of the phase-2 response of this login with its clientSign.
C4_AtMostOnce ==
    /\ \A p \in 1..3 : TimesSent(p) <= 1
    /\ \A p \in 1..3 : Received(p) => Sent(p)
    /\ ret.tag \in {"Err", "panic"} => \A p \in 1..3 : Sent(p) => Received(p)
    /\ \A i \in 1..Len(log) :
         /\ log[i].phase = 2 =>
              \A f \in LoginFields : log[i].form[f] = resp[1].body.payload.obj[f]
         /\ log[i].phase = 3 =>
              LET a == resp[2].body.payload.obj IN
              /\ SubSeq(log[i].url, 1, Len(a.location)) = a.location
              /\ log[i].url[Len(log[i].url)] =
                    "base64(sha1(nonce=" \o ToString(a.nonce) \o "&" \o a.ssecurity \o "))"

C4_Witness ==
    /\ ret.tag = "Err"
    /\ TimesSent(1) = 1 /\ TimesSent(2) = 1 /\ TimesSent(3) = 1

\* C5: the phase-1 request carries the two cookies sdkVersion and deviceId (a
\* 16-character upper-cased random identifier) of the login domain.
C5_PreseededCookies ==
    \A i \in 1..Len(log) :
        log[i].phase = 1 =>
            /\ Cookie(LOGIN_HOST, "sdkVersion", "3.9") \in log[i].cookies
            /\ \E k \in Seeds :
                 Cookie(LOGIN_HOST, "deviceId", RandStr(DeviceIdLen, k, TRUE)) \in log[i].cookies

\* C6: the Session is built on the very cookie store of the handshake: its
\* client and its cookie_store field are the login client's store, every
\* cookie the phase-3 response set is in it and is sent with the session's
\* API requests, and the store holds what the handshake left in it.
C6_SameJar ==
    session # NoSession =>
        /\ session.client = login.client
        /\ session.cookie_store = login.cookie_store
        /\ stores[session.client] = stores[login.client]
        /\ setByP3 \subseteq stores[session.client]
        /\ \A i \in 1..Len(log) :
             log[i].phase = 4 => CookiesFor(setByP3, API_HOST) \subseteq log[i].cookies

C6_Witness ==
    /\ session # NoSession
    /\ setByP3 # {}
    /\ \E i \in 1..Len(log) : log[i].phase = 4 /\ setByP3 \subseteq log[i].cookies

\* C7: in the CLI login command the auth file differs from what it was when
\* the command started only if login has returned a Session.
C7_NoSaveOnFailure ==
    authFile # authFile0 => (ret = Ok /\ session # NoSession)

C7_Witness ==
    /\ cliPc = "exit_err"
    /\ ret.tag = "Err"
    /\ authFile0 = OldFile
    /\ authFile = authFile0

-----------------------------------------------------------------------------
(* Properties of the envelope and of the request layer *)

Returned == rq.tag = "returned"
\* the response on the wire: 2xx, and a JSON object with code, message, data
WireHttp == rq.response.tag = "http"
Wire2xx == WireHttp /\ rq.response.status = "2xx"
WireEnvelope ==
    /\ WireHttp
    /\ rq.response.body.payload.kind = "object"
    /\ {"code", "message", "data"} \subseteq DOMAIN rq.response.body.payload.obj
WireObj == rq.response.body.payload.obj
WireGood == Wire2xx /\ WireEnvelope /\ WireObj["code"] = 0

\* the integer a parsed code stands for (i64 in miai, serde_json::Number in mina)
CodeValue(c) == IF impl = "miai" THEN c ELSE c.v

\* C8: envelope validation succeeds exactly when code = 0 and then returns the
\* envelope with code, message and data unchanged; for every other code it
\* fails with the application error that carries that code and that message.
C8_ErrorForCode ==
    (Returned /\ Wire2xx /\ WireEnvelope) =>
        LET v == rq.validated IN
        /\ (WireObj["code"] = 0) <=> (v.tag = "Ok")
        /\ v.tag = "Ok" =>
              /\ CodeValue(v.value.code) = WireObj["code"]
              /\ v.value.message = WireObj["message"]
              /\ v.value.data = WireObj["data"]
        /\ v.tag = "Err" =>
              /\ v.kind = (IF impl = "miai" THEN "Api" ELSE "Server")
              /\ CodeValue(IF impl = "miai" THEN v.value.code ELSE v.code) = WireObj["code"]
              /\ (IF impl = "miai" THEN v.value.message ELSE v.message) = WireObj["message"]

C8_Witness ==
    /\ Returned /\ Wire2xx /\ WireEnvelope
    /\ WireObj["code"] > 0
    /\ WireObj["message"] = "failed"
    /\ rq.validated.tag = "Err"

\* C9 as stated: get and post return a success value exactly when the status
\* was 2xx, the body parsed as an envelope and its code is 0.
C9_Original ==
    Returned => ((rq.result.tag = "Ok") <=> WireGood)

\* C9 amended: Xiaoai::get and Xiaoai::post return a success value exactly
\* when the status was 2xx, the body parsed as an envelope and its code is 0,
\* and an error otherwise. Mina::get and Mina::post return the raw response
\* for every HTTP status and fail only when the transport failed; the three
\* checks are made by their callers Mina::devices and MinaDevice::ubus, which
\* return a success value exactly when all three hold, and an error otherwise.
C9_Amended ==
    Returned =>
        /\ rq.result.tag \in {"Ok", "Err"}
        /\ rq.validated.tag \in {"Ok", "Err"}
        /\ (rq.validated.tag = "Ok") <=> WireGood
        /\ impl = "miai" => rq.result = rq.validated
        /\ impl = "mina" => ((rq.result.tag = "Ok") <=> WireHttp)

C9_Witness ==
    /\ Returned
    /\ impl = "mina"
    /\ WireHttp /\ ~Wire2xx
    /\ rq.result.tag = "Ok"
    /\ rq.validated.tag = "Err"

\* C10: every get and post carries a generated request id "app_ios_" + 30
\* random alphanumeric characters; get sends it as the query parameter
\* requestId of the URL, whose path and other query parameters are those of
\* the caller's path; post sends it as the form field requestId, whatever the
\* caller's form held, with the caller's other fields unchanged.
C10_RequestId ==
    rq.tag \in {"sent", "returned"} =>
        /\ \E k \in Seeds : rq.request_id = "app_ios_" \o RandStr(RequestIdLen, k, FALSE)
        /\ rq.op = "get" =>
              /\ rq.wire.method = "GET"
              /\ << <<"requestId">>, <<rq.request_id>> >> \in UrlQueryPairs(rq.wire.url)
              /\ UrlPath(rq.wire.url) = <<API_SERVER>> \o UrlPath(rq.uri)
              /\ UrlQueryPairs(rq.uri) \subseteq UrlQueryPairs(rq.wire.url)
        /\ rq.op = "post" =>
              /\ rq.wire.method = "POST"
              /\ rq.wire.form["requestId"] = rq.request_id
              /\ \A k \in DOMAIN rq.form \ {"requestId"} : rq.wire.form[k] = rq.form[k]

\* ---------------------------------------------------------------------------
\* Device commands: Xiaoai::{tts, play_url, ...} (xiaoai.rs 148-308),
\* MinaDevice::{ubus, play_url, play_music} (device.rs 31-117), and the two
\* front ends that dispatch to Xiaoai (main.rs 41-67, ws_server.rs 273-331)
\* ---------------------------------------------------------------------------

\* device.rs lines 55-58: the models that get player_play_music
PlayMusicHardware == {"LX04", "L05B", "L05C", "L06", "L06A", "X08A", "X10A"}
\* the models of the devices of an account; "L16A" is named in xiaoai.rs line 178
Hardwares == PlayMusicHardware \cup {"L16A"}

DeviceId == "dev1"
Texts     == {"hello"}
TrackUrls == {"http://host/a.mp3"}
Volumes   == {5}
Positions == {1000}

\* json!(..).to_string(): the text of a JSON value
to_string(value) == [text_of |-> value]

PlayStates == {"Play", "Pause", "Stop", "Toggle"}
\* Xiaoai::set_play_state lines 286-291
PlayState_action(state) ==
    CASE state = "Play"   -> "play"
      [] state = "Pause"  -> "pause"
      [] state = "Stop"   -> "stop"
      [] state = "Toggle" -> "toggle"

\* one call of a library function
Call(fn, arg) == [fn |-> fn, arg |-> arg]
\* an argument is tagged with its type: a text, a url, a u32, a PlayState
None == [none |-> TRUE]
Arg(type, v) == [k \in {type} |-> v]
Val(arg) == arg[CHOOSE k \in DOMAIN arg : TRUE]

\* Xiaoai::ubus_call that fills the form with path and method exchanged
Xiaoai_ubus_call_swapped(device_id, path, method, message) ==
    [k \in {"deviceId", "method", "path", "message"} |->
        CASE k = "deviceId" -> device_id
          [] k = "method"   -> path
          [] k = "path"     -> method
          [] k = "message"  -> message]

\* Xiaoai::ubus_call lines 155-160: the form handed to Xiaoai::post
Xiaoai_ubus_call(device_id, path, method, message) ==
    [k \in {"deviceId", "method", "path", "message"} |->
        CASE k = "deviceId" -> device_id
          [] k = "method"   -> method
          [] k = "path"     -> path
          [] k = "message"  -> message]

\* MinaDevice::ubus lines 37-42; note the parameter order (method, path, message)
MinaDevice_ubus(device_id, method, path, message) ==
    [k \in {"deviceId", "method", "path", "message"} |->
        CASE k = "deviceId" -> device_id
          [] k = "method"   -> method
          [] k = "path"     -> path
          [] k = "message"  -> message]

\* the "music" value of play_music (xiaoai.rs 197-224, device.rs 80-104)
Music(url) == [stream_url |-> url, play_behavior |-> "REPLACE_ALL"]

Xiaoai_tts(device_id, text) ==
    Xiaoai_ubus_call(device_id, "mibrain", "text_to_speech", to_string([text |-> text]))
Xiaoai_play_url(device_id, url) ==
    Xiaoai_ubus_call(device_id, "mediaplayer", "player_play_url",
                     to_string([url |-> url, type |-> 3, media |-> "app_ios"]))
Xiaoai_play_music(device_id, url) ==
    Xiaoai_ubus_call(device_id, "mediaplayer", "player_play_music",
                     to_string([startaudioid |-> "1582971365183456177", music |-> Music(url)]))
Xiaoai_set_volume(device_id, volume) ==
    Xiaoai_ubus_call(device_id, "mediaplayer", "player_set_volume",
                     to_string([volume |-> volume, media |-> "app_ios"]))
Xiaoai_nlp(device_id, text) ==
    Xiaoai_ubus_call(device_id, "mibrain", "ai_service",
                     to_string([tts |-> 1, nlp |-> 1, nlp_text |-> text]))
Xiaoai_player_status(device_id) ==
    Xiaoai_ubus_call(device_id, "mediaplayer", "player_get_play_status",
                     to_string([media |-> "app_ios"]))
Xiaoai_set_play_state(device_id, state) ==
    Xiaoai_ubus_call(device_id, "mediaplayer", "player_play_operation",
                     to_string([action |-> PlayState_action(state), media |-> "app_ios"]))
Xiaoai_seek(device_id, position_ms) ==
    Xiaoai_ubus_call(device_id, "mediaplayer", "player_seek",
                     to_string([position |-> position_ms, media |-> "app_ios"]))

MinaDevice_play_music(device_id, url) ==
    MinaDevice_ubus(device_id, "player_play_music", "mediaplayer",
                    to_string([startaudioid |-> "1582971365183456177", music |-> Music(url)]))
\* MinaDevice::play_url lines 54-75
MinaDevice_play_url(device_id, hardware, url) ==
    IF hardware \in PlayMusicHardware
    THEN MinaDevice_play_music(device_id, url)
    ELSE MinaDevice_ubus(device_id, "player_play_url", "mediaplayer",
                         to_string([url |-> url, type |-> 2, media |-> "app_ios"]))

\* main.rs lines 112-150: the subcommands that act on the account or a device
CliCommands ==
    { [cmd |-> c, arg |-> None] : c \in {"Device", "Pause", "Stop", "Status"} }
    \cup { [cmd |-> c, arg |-> Arg("text", t)] : c \in {"Say", "Ask"}, t \in Texts }
    \cup { [cmd |-> "Play", arg |-> u] : u \in {None} \cup {Arg("url", u) : u \in TrackUrls} }
    \cup { [cmd |-> "Volume", arg |-> Arg("u32", v)] : v \in Volumes }
    \cup { [cmd |-> "Seek", arg |-> Arg("u32", ms)] : ms \in Positions }
\* main.rs lines 40-67: the library call of a subcommand
Cli_dispatch(c) ==
    CASE c.cmd = "Device" -> Call("device_info", None)
      [] c.cmd = "Say"    -> Call("tts", c.arg)
      [] c.cmd = "Play"   -> IF c.arg # None THEN Call("play_url", c.arg)
                             ELSE Call("set_play_state", Arg("state", "Play"))
      [] c.cmd = "Volume" -> Call("set_volume", c.arg)
      [] c.cmd = "Ask"    -> Call("nlp", c.arg)
      [] c.cmd = "Pause"  -> Call("set_play_state", Arg("state", "Pause"))
      [] c.cmd = "Stop"   -> Call("set_play_state", Arg("state", "Stop"))
      [] c.cmd = "Status" -> Call("player_status_parsed", None)
      [] c.cmd = "Seek"   -> Call("seek", c.arg)

\* ws_server.rs lines 14-44: the requests of a relay client
ApiRequests ==
    { [cmd |-> c, arg |-> None] : c \in {"GetDevices", "Pause", "Stop", "Status"} }
    \cup { [cmd |-> c, arg |-> Arg("text", t)] : c \in {"Say", "Ask"}, t \in Texts }
    \cup { [cmd |-> "Play", arg |-> u] : u \in {None} \cup {Arg("url", u) : u \in TrackUrls} }
    \cup { [cmd |-> "Volume", arg |-> Arg("u32", v)] : v \in Volumes }
\* a relay that answers stop with a pause
handle_request_stop_pauses(request) ==
    CASE request.cmd = "Say"        -> Call("tts", request.arg)
      [] request.cmd = "Play"       -> IF request.arg # None
                                       THEN Call("play_url", request.arg)
                                       ELSE Call("set_play_state", Arg("state", "Play"))
      [] request.cmd = "Pause"      -> Call("set_play_state", Arg("state", "Pause"))
      [] request.cmd = "Stop"       -> Call("set_play_state", Arg("state", "Pause"))
      [] request.cmd = "Volume"     -> Call("set_volume", request.arg)
      [] request.cmd = "Ask"        -> Call("nlp", request.arg)
      [] request.cmd = "Status"     -> Call("player_status_parsed", None)
      [] request.cmd = "GetDevices" -> Call("device_info", None)
\* ws_server.rs lines 273-331: the library call of a relay request
handle_request(request) ==
    CASE request.cmd = "Say"        -> Call("tts", request.arg)
      [] request.cmd = "Play"       -> IF request.arg # None
                                       THEN Call("play_url", request.arg)
                                       ELSE Call("set_play_state", Arg("state", "Play"))
      [] request.cmd = "Pause"      -> Call("set_play_state", Arg("state", "Pause"))
      [] request.cmd = "Stop"       -> Call("set_play_state", Arg("state", "Stop"))
      [] request.cmd = "Volume"     -> Call("set_volume", request.arg)
      [] request.cmd = "Ask"        -> Call("nlp", request.arg)
      [] request.cmd = "Status"     -> Call("player_status_parsed", None)
      [] request.cmd = "GetDevices" -> Call("device_info", None)

\* the public device functions of Xiaoai, called by a library user
XiaoaiCalls ==
    { Call(f, None) : f \in {"device_info", "player_status", "player_status_parsed"} }
    \cup { Call(f, Arg("text", t)) : f \in {"tts", "nlp"}, t \in Texts }
    \cup { Call(f, Arg("url", u)) : f \in {"play_url", "play_music"}, u \in TrackUrls }
    \cup { Call("set_volume", Arg("u32", v)) : v \in Volumes }
    \cup { Call("set_play_state", Arg("state", st)) : st \in PlayStates }
    \cup { Call("seek", Arg("u32", ms)) : ms \in Positions }
\* the public functions of Mina and MinaDevice
MinaCalls ==
    { Call("devices", None) }
    \cup { Call("play_url", Arg("url", u)) : u \in TrackUrls }
    \cup { Call("ubus", Arg("text", t)) : t \in Texts }

\* the front ends are built on Xiaoai; Mina is used as a library only
Fronts    == IF impl = "miai" THEN {"lib", "cli", "relay"} ELSE {"lib"}
Commands(front) ==
    CASE front = "cli"   -> CliCommands
      [] front = "relay" -> ApiRequests
      [] front = "lib"   -> { [cmd |-> "call", arg |-> c] :
                                c \in IF impl = "miai" THEN XiaoaiCalls ELSE MinaCalls }
CallOf(front, command) ==
    CASE front = "cli"   -> Cli_dispatch(command)
      [] front = "relay" -> handle_request(command)
      [] front = "lib"   -> command.arg

IsGet(call) == call.fn \in {"device_info", "devices"}

\* the form a device function hands to post
Xiaoai_form(call, device_id) ==
    CASE call.fn = "tts"            -> Xiaoai_tts(device_id, Val(call.arg))
      [] call.fn = "play_url"       -> Xiaoai_play_url(device_id, Val(call.arg))
      [] call.fn = "play_music"     -> Xiaoai_play_music(device_id, Val(call.arg))
      [] call.fn = "set_volume"     -> Xiaoai_set_volume(device_id, Val(call.arg))
      [] call.fn = "nlp"            -> Xiaoai_nlp(device_id, Val(call.arg))
      [] call.fn \in {"player_status", "player_status_parsed"}
                                    -> Xiaoai_player_status(device_id)
      [] call.fn = "set_play_state" -> Xiaoai_set_play_state(device_id, Val(call.arg))
      [] call.fn = "seek"           -> Xiaoai_seek(device_id, Val(call.arg))
MinaDevice_form(call, device_id, hardware) ==
    CASE call.fn = "play_url" -> MinaDevice_play_url(device_id, hardware, Val(call.arg))
      [] call.fn = "ubus"     -> MinaDevice_ubus(device_id, "text_to_speech", "mibrain",
                                                 to_string([text |-> Val(call.arg)]))
FormOf(call, hardware) ==
    IF IsGet(call) THEN NoForm
    ELSE IF impl = "miai" THEN Xiaoai_form(call, DeviceId)
    ELSE MinaDevice_form(call, DeviceId, hardware)

\* the request on the wire: Xiaoai::get / post, Mina::get / post
DeviceList == <<"admin/v2/device_list", "?", "master", "=", "0">>
WireOf(call, form, id) ==
    IF IsGet(call)
    THEN Request(0, "GET",
                 IF impl = "miai" THEN Xiaoai_get_url(DeviceList, id)
                 ELSE Mina_get_url(DeviceList, id),
                 NoForm, CookiesFor(stores[session.client], API_HOST))
    ELSE Request(0, "POST", <<API_SERVER, "remote/ubus">>,
                 form_insert(form, "requestId", id),
                 CookiesFor(stores[session.client], API_HOST))

\* serde_json::from_value::<Vec<DeviceInfo>>(data): xiaoai.rs line 61, mina.rs line 132
extract_data(res) ==
    IF res.tag = "Err" THEN res
    ELSE IF res.value.data = "data" THEN OkOf([devices |-> res.value.data])
    ELSE Err("Json")
\* xiaoai.rs lines 276-277: Ok(PlayerStatus { raw: resp.data })
PlayerStatusOf(res) ==
    IF res.tag = "Err" THEN res ELSE OkOf([raw |-> res.value.data])

\* what the device function returns for response r
ResultOf(call, r) ==
    LET res == IF impl = "miai" THEN Xiaoai_result(r) ELSE Mina_validated(Mina_result(r))
    IN  IF IsGet(call) THEN extract_data(res)
        ELSE IF call.fn = "player_status_parsed" THEN PlayerStatusOf(res)
        ELSE res

NoCommand == [cmd |-> "none", arg |-> None]
DcIdle(hardware, prev) ==
    [tag |-> "idle", hardware |-> hardware, prev |-> prev, front |-> "none",
     command |-> NoCommand, call |-> Call("none", None), form |-> NoForm,
     requests |-> <<>>, response |-> NoResp, result |-> Pending]

\* a front end or a library user invokes one device function; the function
\* builds its form and awaits the one request of Xiaoai::post / get
Command_send ==
    /\ dc.tag = "idle"
    /\ \E front \in Fronts :
         \E command \in Commands(front), id \in random_request_id :
           LET call == CallOf(front, command)
               form == FormOf(call, dc.hardware)
           IN  dc' = [dc EXCEPT !.tag = "sent", !.front = front, !.command = command,
                                !.call = call, !.form = form,
                                !.requests = <<WireOf(call, form, id)>>]
    /\ UNCHANGED <<loginVars, cliVars, rq, poll, clones, loaded, relay, cli>>

\* a device function that sends its request again when the first one failed
Command_recv_retry ==
    /\ dc.tag = "sent"
    /\ \E r \in ApiResponses, id \in random_request_id :
         LET res == ResultOf(dc.call, r) IN
         IF res.tag = "Err" /\ Len(dc.requests) = 1
         THEN dc' = [dc EXCEPT !.requests = Append(@, WireOf(dc.call, dc.form, id))]
         ELSE dc' = [dc EXCEPT !.tag = "returned", !.response = r, !.result = res]
    /\ UNCHANGED <<loginVars, cliVars, rq, poll, clones, loaded, relay, cli>>

\* the response arrives (or the transport fails) and the function returns
Command_recv ==
    /\ dc.tag = "sent"
    /\ \E r \in ApiResponses :
         dc' = [dc EXCEPT !.tag = "returned", !.response = r,
                          !.result = ResultOf(dc.call, r)]
    /\ UNCHANGED <<loginVars, cliVars, rq, poll, clones, loaded, relay, cli>>

\* the caller has the result; the next invocation starts from scratch, the
\* model remembers which function ran last and whether it succeeded
Command_next ==
    /\ dc.tag = "returned"
    /\ dc' = DcIdle(dc.hardware, [call |-> dc.call, ok |-> dc.result.tag = "Ok"])
    /\ UNCHANGED <<loginVars, cliVars, rq, poll, clones, loaded, relay, cli>>

InitDevice ==
    /\ impl \in Impls
    /\ cliPc = "lib"
    /\ creds = NoCreds
    /\ pc = "done"
    /\ ret = Ok
    /\ stores = << {Cookie(API_HOST, "serviceToken", "tok1")} >>
    /\ login = NoLogin
    /\ session = [client |-> 1, cookie_store |-> 1, server |-> API_SERVER]
    /\ log = <<>>
    /\ resp = [p \in 1..3 |-> NoResp]
    /\ setByP3 = {}
    /\ authFile = Absent
    /\ authFile0 = Absent
    /\ rq = RqIdle
    /\ \E h \in Hardwares : dc = DcIdle(h, None)
    /\ poll = Idle /\ clones = Idle /\ loaded = NoSession
    /\ relay = Idle /\ cli = Idle

NextDevice ==
    \/ Command_send
    \/ Command_recv
    \/ Command_next

SpecDevice == InitDevice /\ [][NextDevice]_vars

\* ---------------------------------------------------------------------------
\* Claims about the device commands (SpecDevice)
\* ---------------------------------------------------------------------------

\* the invocation in progress asks to play a URL: the CLI's or the relay's
\* play command with a url, or play_url called by a library user
PlayUrlRequested ==
    /\ dc.tag # "idle"
    /\ \/ dc.front \in {"cli", "relay"} /\ dc.command.cmd = "Play" /\ dc.command.arg # None
       \/ dc.front = "lib" /\ dc.command.arg.fn = "play_url"

\* C11: for a device whose model is in the allow-list (LX04, L05B, L05C, L06,
\* L06A, X08A, X10A) every play-URL request, also one that arrives through the
\* CLI's or the relay's play command, is sent as mediaplayer/player_play_music
\* and never as player_play_url; for every other model it is sent as
\* mediaplayer/player_play_url.
C11_PlayUrlRouting ==
    PlayUrlRequested =>
        \A i \in 1..Len(dc.requests) :
            /\ dc.requests[i].form["path"] = "mediaplayer"
            /\ dc.requests[i].form["method"] =
                 IF dc.hardware \in {"LX04", "L05B", "L05C", "L06", "L06A", "X08A", "X10A"}
                 THEN "player_play_music" ELSE "player_play_url"

\* the device operation that an invocation issues
IssuedOperation ==
    CASE dc.call.fn \in {"tts", "ubus"}  -> "speak"
      [] dc.call.fn = "play_url"         ->
            IF impl = "mina" /\ dc.hardware \in PlayMusicHardware
            THEN "music-item" ELSE "play URL"
      [] dc.call.fn = "play_music"       -> "music-item"
      [] dc.call.fn = "set_volume"       -> "volume"
      [] dc.call.fn = "nlp"              -> "ask"
      [] dc.call.fn \in {"player_status", "player_status_parsed"} -> "status"
      [] dc.call.fn = "set_play_state"   -> "play state"
      [] dc.call.fn = "seek"             -> "seek"
\* the routing table of the operations: <<path, method>>
RoutingTable(op) ==
    CASE op = "speak"      -> <<"mibrain", "text_to_speech">>
      [] op = "play URL"   -> <<"mediaplayer", "player_play_url">>
      [] op = "music-item" -> <<"mediaplayer", "player_play_music">>
      [] op = "volume"     -> <<"mediaplayer", "player_set_volume">>
      [] op = "ask"        -> <<"mibrain", "ai_service">>
      [] op = "status"     -> <<"mediaplayer", "player_get_play_status">>
      [] op = "play state" -> <<"mediaplayer", "player_play_operation">>
      [] op = "seek"       -> <<"mediaplayer", "player_seek">>
DeviceOperation == dc.tag # "idle" /\ ~IsGet(dc.call)

\* C12: every device operation posts a form with exactly the four fields
\* deviceId, method, path, message, routed by the fixed table (speak =
\* mibrain/text_to_speech, play URL = mediaplayer/player_play_url, music-item =
\* mediaplayer/player_play_music, volume = mediaplayer/player_set_volume, ask =
\* mibrain/ai_service, status = mediaplayer/player_get_play_status, play state =
\* mediaplayer/player_play_operation, seek = mediaplayer/player_seek); the path
\* is in the path field and the method in the method field, and the play
\* states Play, Pause, Stop, Toggle become the actions play, pause, stop, toggle.
C12_Routing ==
    DeviceOperation =>
        /\ DOMAIN dc.form = {"deviceId", "method", "path", "message"}
        /\ dc.form["deviceId"] = DeviceId
        /\ dc.form["path"] = RoutingTable(IssuedOperation)[1]
        /\ dc.form["method"] = RoutingTable(IssuedOperation)[2]
        /\ \A i \in 1..Len(dc.requests) :
             /\ dc.requests[i].method = "POST"
             /\ \A k \in DOMAIN dc.form : dc.requests[i].form[k] = dc.form[k]
        /\ dc.call.fn = "set_play_state" =>
             LET state  == Val(dc.call.arg)
                 action == dc.form["message"].text_of.action
             IN  /\ state = "Play"   <=> action = "play"
                 /\ state = "Pause"  <=> action = "pause"
                 /\ state = "Stop"   <=> action = "stop"
                 /\ state = "Toggle" <=> action = "toggle"
C12_Witness ==
    /\ dc.tag = "sent"
    /\ dc.call.fn = "set_play_state"
    /\ Val(dc.call.arg) = "Toggle"
    /\ dc.prev # None /\ dc.prev.call.fn = "seek"

\* the response is a 2xx envelope with code 0
ResponseGood(r) ==
    /\ r.tag = "http" /\ r.status = "2xx"
    /\ r.body.payload.kind = "object"
    /\ {"code", "message", "data"} \subseteq DOMAIN r.body.payload.obj
    /\ r.body.payload.obj["code"] = 0

\* C13: one invocation of a device command or of device_info sends exactly
\* one HTTP request; on a transport error, a non-2xx status, a malformed body
\* or a code other than 0 the error is returned at once, with no retry; and
\* nothing is cached: an invocation that repeats the previous one sends its
\* own request.
C13_OneRequest ==
    /\ dc.tag = "idle" => Len(dc.requests) = 0
    /\ dc.tag \in {"sent", "returned"} => Len(dc.requests) = 1
    /\ dc.tag = "returned" /\ ~ResponseGood(dc.response) => dc.result.tag = "Err"
    /\ dc.tag = "returned" /\ dc.result.tag = "Ok" => ResponseGood(dc.response)
C13_Witness ==
    /\ dc.tag = "returned"
    /\ dc.response.tag = "http" /\ dc.response.status = "non2xx"
    /\ dc.result.tag = "Err"
    /\ Len(dc.requests) = 1
    /\ dc.prev # None /\ dc.prev.call = dc.call /\ dc.prev.ok

\* ---------------------------------------------------------------------------
\* The polling loop Xiaoai::poll_ubus (xiaoai.rs 317-343) and its owner, the
\* CLI's listen command (main.rs 69-92)
\* ---------------------------------------------------------------------------

MaxPolls == 3
\* interval_secs, and how late a timer or a response may be
Intervals == {1, 2}
Delays    == {0, 1}

\* what the service answers to the polled call
PollResponses ==
    { r \in ApiResponses :
        r.tag = "http" =>
          \/ r.status = "non2xx" /\ r.body.payload = Empty
          \/ /\ r.status = "2xx" /\ IsEnvelope(r.body)
             /\ r.body.payload.obj["message"] = "ok"
             /\ r.body.payload.obj["code"] \in {0, 1} }

\* the task of tokio::spawn(xi.poll_ubus(..)) before it is first polled:
\*   pc        where the loop is: "start" (top of the loop body), "inflight"
\*             (ubus_call(..).await), "handler" (handler(resp).await), "sleep"
\*             (sleep(..).await), "returned" (the function returned), "aborted"
\*   inflight  the ubus calls awaiting their response
\*   running   the iterations whose handler future is running
\*   sleeping  a sleep is pending
\*   calls     the time of each ubus call; results: what each call returned
\*   handled   the handler invocations: iteration, response, time
\*   sleeps    the sleeps completed; owner: the listen command
PollSpawned(interval) ==
    [pc |-> "start", inflight |-> 0, running |-> {}, sleeping |-> FALSE,
     interval |-> interval, now |-> 0, calls |-> <<>>, results |-> <<>>,
     handled |-> <<>>, sleeps |-> 0, owner |-> "waiting",
     atAbort |-> [calls |-> 0, handled |-> 0]]

Invocation(iter, response, at) == [iter |-> iter, response |-> response, at |-> at]

\* line 329: self.ubus_call(device_id, path, method, message) is called
Poll_call ==
    /\ poll.pc = "start"
    /\ Len(poll.calls) < MaxPolls
    /\ poll' = [poll EXCEPT !.pc = "inflight", !.inflight = @ + 1,
                            !.calls = Append(@, poll.now)]
    /\ UNCHANGED <<loginVars, cliVars, rq, dc, clones, loaded, relay, cli>>

\* a loop that runs the handler as a task of its own and goes on to sleep
Poll_recv_spawn ==
    /\ poll.pc = "inflight"
    /\ \E r \in PollResponses, d \in Delays :
         LET res == Xiaoai_result(r)
             k   == Len(poll.calls)
             t   == poll.now + d
         IN  IF res.tag = "Ok"
             THEN poll' = [poll EXCEPT !.pc = "sleep", !.inflight = @ - 1, !.now = t,
                                       !.results = Append(@, res),
                                       !.handled = Append(@, Invocation(k, res.value, t)),
                                       !.running = @ \cup {k}, !.sleeping = TRUE]
             ELSE poll' = [poll EXCEPT !.pc = "sleep", !.inflight = @ - 1, !.now = t,
                                       !.results = Append(@, res), !.sleeping = TRUE]
    /\ UNCHANGED <<loginVars, cliVars, rq, dc, clones, loaded, relay, cli>>

\* a loop written with ubus_call(..).await? : the failure ends the function
Poll_recv_propagate ==
    /\ poll.pc = "inflight"
    /\ \E r \in PollResponses, d \in Delays :
         LET res == Xiaoai_result(r)
             k   == Len(poll.calls)
             t   == poll.now + d
         IN  IF res.tag = "Ok"
             THEN poll' = [poll EXCEPT !.pc = "handler", !.inflight = @ - 1, !.now = t,
                                       !.results = Append(@, res),
                                       !.handled = Append(@, Invocation(k, res.value, t)),
                                       !.running = @ \cup {k}]
             ELSE poll' = [poll EXCEPT !.pc = "returned", !.inflight = @ - 1, !.now = t,
                                       !.results = Append(@, res)]
    /\ UNCHANGED <<loginVars, cliVars, rq, dc, clones, loaded, relay, cli>>

\* a loop whose Err arm ends in `continue`: no sleep after a failure
Poll_recv_continue ==
    /\ poll.pc = "inflight"
    /\ \E r \in PollResponses, d \in Delays :
         LET res == Xiaoai_result(r)
             k   == Len(poll.calls)
             t   == poll.now + d
         IN  IF res.tag = "Ok"
             THEN poll' = [poll EXCEPT !.pc = "handler", !.inflight = @ - 1, !.now = t,
                                       !.results = Append(@, res),
                                       !.handled = Append(@, Invocation(k, res.value, t)),
                                       !.running = @ \cup {k}]
             ELSE poll' = [poll EXCEPT !.pc = "start", !.inflight = @ - 1, !.now = t,
                                       !.results = Append(@, res)]
    /\ UNCHANGED <<loginVars, cliVars, rq, dc, clones, loaded, relay, cli>>

\* lines 329-338: the call returns; Ok(resp) => handler(resp) is called and
\* awaited, Err(err) => eprintln! and on to the sleep of line 341
Poll_recv ==
    /\ poll.pc = "inflight"
    /\ \E r \in PollResponses, d \in Delays :
         LET res == Xiaoai_result(r)
             k   == Len(poll.calls)
             t   == poll.now + d
         IN  IF res.tag = "Ok"
             THEN poll' = [poll EXCEPT !.pc = "handler", !.inflight = @ - 1, !.now = t,
                                       !.results = Append(@, res),
                                       !.handled = Append(@, Invocation(k, res.value, t)),
                                       !.running = @ \cup {k}]
             ELSE poll' = [poll EXCEPT !.pc = "sleep", !.inflight = @ - 1, !.now = t,
                                       !.results = Append(@, res), !.sleeping = TRUE]
    /\ UNCHANGED <<loginVars, cliVars, rq, dc, clones, loaded, relay, cli>>

\* line 332: handler(resp).await completes; line 341: the sleep starts
Poll_handler_done ==
    /\ poll.pc = "handler"
    /\ poll' = [poll EXCEPT !.pc = "sleep", !.running = @ \ {Len(poll.calls)},
                            !.sleeping = TRUE]
    /\ UNCHANGED <<loginVars, cliVars, rq, dc, clones, loaded, relay, cli>>

\* line 341: sleep(Duration::from_secs(interval_secs)).await completes, not
\* before the interval has passed; the loop body starts again
Poll_wake ==
    /\ poll.pc = "sleep"
    /\ \E d \in Delays :
         poll' = [poll EXCEPT !.pc = "start", !.sleeping = FALSE, !.sleeps = @ + 1,
                              !.now = @ + poll.interval + d]
    /\ UNCHANGED <<loginVars, cliVars, rq, dc, clones, loaded, relay, cli>>

\* a listen command that returns on Ctrl+C and leaves the task running
Listen_ctrl_c_detach ==
    /\ poll.owner = "waiting"
    /\ poll' = [poll EXCEPT !.owner = "exited",
                            !.atAbort = [calls |-> Len(poll.calls),
                                         handled |-> Len(poll.handled)]]
    /\ UNCHANGED <<loginVars, cliVars, rq, dc, clones, loaded, relay, cli>>

\* main.rs lines 88-91: ctrl_c().await?; handle.abort(); return Ok(()).
\* The task is dropped where it is suspended, with the futures it awaits.
Listen_ctrl_c ==
    /\ poll.owner = "waiting"
    /\ poll' = [poll EXCEPT !.owner = "exited", !.pc = "aborted",
                            !.inflight = 0, !.running = {}, !.sleeping = FALSE,
                            !.atAbort = [calls |-> Len(poll.calls),
                                         handled |-> Len(poll.handled)]]
    /\ UNCHANGED <<loginVars, cliVars, rq, dc, clones, loaded, relay, cli>>

InitPoll ==
    /\ impl = "miai"
    /\ cliPc = "listen"
    /\ creds = NoCreds
    /\ pc = "done"
    /\ ret = Ok
    /\ stores = << {Cookie(API_HOST, "serviceToken", "tok1")} >>
    /\ login = NoLogin
    /\ session = [client |-> 1, cookie_store |-> 1, server |-> API_SERVER]
    /\ log = <<>>
    /\ resp = [p \in 1..3 |-> NoResp]
    /\ setByP3 = {}
    /\ authFile = Absent
    /\ authFile0 = Absent
    /\ rq = RqIdle
    /\ dc = Idle /\ clones = Idle /\ loaded = NoSession
    /\ relay = Idle /\ cli = Idle
    /\ \E i \in Intervals : poll = PollSpawned(i)

NextPoll ==
    \/ Poll_call
    \/ Poll_recv
    \/ Poll_handler_done
    \/ Poll_wake
    \/ Listen_ctrl_c

SpecPoll == InitPoll /\ [][NextPoll]_vars

\* ---------------------------------------------------------------------------
\* Claims about the polling loop (SpecPoll)
\* ---------------------------------------------------------------------------

PollActive ==
    poll.inflight + Cardinality(poll.running) + (IF poll.sleeping THEN 1 ELSE 0)
Failed(k)    == poll.results[k].tag = "Err"
Succeeded(k) == poll.results[k].tag = "Ok"
HandledIters == { poll.handled[j].iter : j \in 1..Len(poll.handled) }

\* C14: the handler invocations of the polling loop never overlap each other
\* and never overlap a ubus call: a call is issued only after the handler of
\* the previous successful response has completed, so at any time at most one
\* of {call in flight, handler running, sleeping} is active.
C14_NoOverlap ==
    /\ PollActive <= 1
    /\ poll.inflight > 0 => poll.running = {}
    /\ \A k \in poll.running : k = Len(poll.calls) /\ k = Len(poll.results)
C14_Witness ==
    /\ poll.pc = "handler"
    /\ Cardinality(poll.running) = 1
    /\ Len(poll.handled) = 2
    /\ poll.inflight = 0 /\ ~poll.sleeping

\* C15: when a ubus call of the polling loop fails (transport or application
\* error) the handler is not invoked for that iteration, the failure is never
\* returned to the caller of poll_ubus, and the loop sleeps and then issues the
\* next call; this holds for any number of consecutive failures.
C15_FailureContained ==
    /\ poll.pc # "returned"
    /\ \A k \in 1..Len(poll.results) :
         Failed(k) =>
           /\ k \notin HandledIters
           /\ poll.pc # "aborted" =>
                \/ poll.pc = "sleep" /\ poll.sleeps = k - 1 /\ k = Len(poll.calls)
                \/ poll.sleeps >= k
           /\ k < Len(poll.calls) => poll.sleeps >= k
C15_Witness ==
    /\ Len(poll.calls) = 3
    /\ Len(poll.results) = 2
    /\ Failed(1) /\ Failed(2)
    /\ poll.results[1].kind = "Request" /\ poll.results[2].kind = "Api"
    /\ poll.pc = "inflight"
    /\ poll.handled = <<>>

\* C16: N iterations whose calls all succeed produce exactly N handler
\* invocations, each with the response of its own iteration, in order; between
\* two consecutive ubus calls, after a success as well as after a failure,
\* exactly one sleep of the interval takes place, so consecutive handler
\* invocations are at least the interval apart.
C16_ExactlyOnce ==
    /\ HandledIters = { k \in 1..Len(poll.results) : Succeeded(k) }
    /\ \A j \in 1..Len(poll.handled) :
         /\ poll.handled[j].response = poll.results[poll.handled[j].iter].value
         /\ j > 1 => /\ poll.handled[j - 1].iter < poll.handled[j].iter
                     /\ poll.handled[j].at - poll.handled[j - 1].at >= poll.interval
    /\ (\A k \in 1..Len(poll.results) : Succeeded(k)) => Len(poll.handled) = Len(poll.results)
    /\ poll.pc \in {"inflight", "handler", "sleep"} => poll.sleeps = Len(poll.calls) - 1
    /\ poll.pc = "start" => poll.sleeps = Len(poll.calls)
    /\ \A k \in 2..Len(poll.calls) : poll.calls[k] - poll.calls[k - 1] >= poll.interval
C16_Witness ==
    /\ Len(poll.handled) = 3
    /\ \A k \in 1..3 : Succeeded(k) /\ poll.handled[k].iter = k
    /\ poll.handled[1].response # poll.handled[2].response
    /\ poll.sleeps = 2
    /\ poll.interval = 2

\* C17: the polling loop never terminates by itself, whatever the calls
\* return; it stops only when its owner aborts the task (the listen command
\* does on Ctrl+C), and after the abort no ubus call is issued and no handler
\* is invoked.
C17_OnlyAbortStops ==
    /\ poll.pc # "returned"
    /\ poll.pc = "aborted" <=> poll.owner = "exited"
    /\ poll.owner = "exited" =>
         /\ Len(poll.calls) = poll.atAbort.calls
         /\ Len(poll.handled) = poll.atAbort.handled
         /\ PollActive = 0
C17_Witness ==
    /\ poll.owner = "exited"
    /\ poll.pc = "aborted"
    /\ poll.atAbort.calls = 3 /\ Len(poll.results) = 2
    /\ Failed(1) /\ Succeeded(2)

\* ---------------------------------------------------------------------------
\* Clones of a Session and the lock of the cookie jar: #[derive(Clone)] struct
\* Xiaoai (xiaoai.rs 26-31), the cookie provider of its client (get / post,
\* 75-115) and Xiaoai::save (125-127)
\* ---------------------------------------------------------------------------

MaxClones == 1
\* task t runs its commands on handle t; handle 1 is the Session itself
Tasks == 1..(MaxClones + 1)

\* the Set-Cookie headers of a response of the service
SetCookies == {{}} \cup { {<<"serviceToken", "new" \o ToString(v)>>} : v \in Variants }

TaskIdle == [pc |-> "idle", cookies |-> {}, expect |-> {}, setCookie |-> {}]
\*   handles   the Session and its clones
\*   holders   the tasks that hold the lock of a CookieStoreMutex
\*   tasks     per task: where its command is, the cookies its last request
\*             carried, the cookies that request was due (expect), and the
\*             Set-Cookie of the response it received
\*   truth     the cookies the service has set so far on top of the login's;
\*             writer: the task whose response set a cookie last
ClonesInit(S) ==
    [handles |-> <<session>>, holders |-> {}, tasks |-> [t \in Tasks |-> TaskIdle],
     truth |-> S, writer |-> 0]

HandleOf(t) == clones.handles[t]
Runs(t) == t <= Len(clones.handles)

\* a clone that owns a copy of the cookies
Session_clone_copy ==
    /\ Len(clones.handles) <= MaxClones
    /\ stores' = Append(stores, stores[clones.handles[1].cookie_store])
    /\ clones' = [clones EXCEPT !.handles =
                     Append(@, [client |-> Len(stores) + 1,
                                cookie_store |-> Len(stores) + 1,
                                server |-> clones.handles[1].server])]
    /\ UNCHANGED <<impl, pc, creds, ret, login, session, log, resp, setByP3,
                   cliVars, rq, dc, poll, loaded, relay, cli>>

\* xiaoai.clone(): Client::clone and Arc::clone, both new handles to the same data
Session_clone ==
    /\ Len(clones.handles) <= MaxClones
    /\ clones' = [clones EXCEPT !.handles = Append(@, clones.handles[1])]
    /\ UNCHANGED <<loginVars, cliVars, rq, dc, poll, loaded, relay, cli>>

\* the client asks its cookie provider for the cookies of the request:
\* CookieStoreMutex::cookies takes the lock
Req_lock(t) ==
    /\ Runs(t) /\ clones.tasks[t].pc = "idle"
    /\ clones.holders = {}
    /\ clones' = [clones EXCEPT !.holders = {t}, !.tasks[t].pc = "reading"]
    /\ UNCHANGED <<loginVars, cliVars, rq, dc, poll, loaded, relay, cli>>

\* a client that keeps the lock of the jar while its request is under way
Req_send_holding(t) ==
    /\ Runs(t) /\ clones.tasks[t].pc = "reading"
    /\ clones' = [clones EXCEPT
                    !.tasks[t].pc = "await",
                    !.tasks[t].cookies = CookiesFor(stores[HandleOf(t).client], API_HOST),
                    !.tasks[t].expect = CookiesFor(clones.truth, API_HOST)]
    /\ UNCHANGED <<loginVars, cliVars, rq, dc, poll, loaded, relay, cli>>

\* the cookies are read, the lock is released, and the request is sent:
\* send().await of Xiaoai::get / post
Req_send(t) ==
    /\ Runs(t) /\ clones.tasks[t].pc = "reading"
    /\ clones' = [clones EXCEPT
                    !.holders = @ \ {t},
                    !.tasks[t].pc = "await",
                    !.tasks[t].cookies = CookiesFor(stores[HandleOf(t).client], API_HOST),
                    !.tasks[t].expect = CookiesFor(clones.truth, API_HOST)]
    /\ UNCHANGED <<loginVars, cliVars, rq, dc, poll, loaded, relay, cli>>

\* the response arrives; without Set-Cookie the provider is not called
Req_response(t) ==
    /\ Runs(t) /\ clones.tasks[t].pc = "await"
    /\ \E sc \in SetCookies :
         clones' = [clones EXCEPT !.tasks[t] =
                       IF sc = {} THEN TaskIdle
                       ELSE [@ EXCEPT !.pc = "got", !.setCookie = sc]]
    /\ UNCHANGED <<loginVars, cliVars, rq, dc, poll, loaded, relay, cli>>

\* CookieStoreMutex::set_cookies takes the lock
Store_lock(t) ==
    /\ Runs(t) /\ clones.tasks[t].pc = "got"
    /\ clones.holders = {}
    /\ clones' = [clones EXCEPT !.holders = {t}, !.tasks[t].pc = "writing"]
    /\ UNCHANGED <<loginVars, cliVars, rq, dc, poll, loaded, relay, cli>>

\* the cookies are inserted and the lock is released
Store_insert(t) ==
    /\ Runs(t) /\ clones.tasks[t].pc = "writing"
    /\ LET cs == { Cookie(API_HOST, sc[1], sc[2]) : sc \in clones.tasks[t].setCookie } IN
         /\ stores' = [stores EXCEPT ![HandleOf(t).client] = StoreInsertAll(@, cs)]
         /\ clones' = [clones EXCEPT !.holders = @ \ {t}, !.tasks[t] = TaskIdle,
                                     !.truth = StoreInsertAll(@, cs), !.writer = t]
    /\ UNCHANGED <<impl, pc, creds, ret, login, session, log, resp, setByP3,
                   cliVars, rq, dc, poll, loaded, relay, cli>>

\* Xiaoai::save line 126: self.cookie_store.lock().unwrap()
Save_lock(t) ==
    /\ Runs(t) /\ clones.tasks[t].pc = "idle"
    /\ clones.holders = {}
    /\ clones' = [clones EXCEPT !.holders = {t}, !.tasks[t].pc = "saving"]
    /\ UNCHANGED <<loginVars, cliVars, rq, dc, poll, loaded, relay, cli>>

\* save_incl_expired_and_nonpersistent writes; the guard is dropped on return
Save_write(t) ==
    /\ Runs(t) /\ clones.tasks[t].pc = "saving"
    /\ authFile' = File(save(stores[HandleOf(t).cookie_store]))
    /\ clones' = [clones EXCEPT !.holders = @ \ {t}, !.tasks[t].pc = "idle"]
    /\ UNCHANGED <<loginVars, cliPc, authFile0, rq, dc, poll, loaded, relay, cli>>

InitClones ==
    /\ impl = "miai"
    /\ cliPc = "lib"
    /\ creds = NoCreds
    /\ pc = "done"
    /\ ret = Ok
    /\ stores = << {Cookie(API_HOST, "serviceToken", "tok1"),
                    Cookie(LOGIN_HOST, "passToken", "pass1")} >>
    /\ login = NoLogin
    /\ session = [client |-> 1, cookie_store |-> 1, server |-> API_SERVER]
    /\ log = <<>>
    /\ resp = [p \in 1..3 |-> NoResp]
    /\ setByP3 = {}
    /\ authFile = Absent
    /\ authFile0 = Absent
    /\ rq = RqIdle
    /\ dc = Idle /\ poll = Idle /\ loaded = NoSession
    /\ relay = Idle /\ cli = Idle
    /\ clones = ClonesInit(stores[1])

NextClones ==
    \/ Session_clone
    \/ \E t \in Tasks :
         \/ Req_lock(t)
         \/ Req_send(t)
         \/ Req_response(t)
         \/ Store_lock(t)
         \/ Store_insert(t)
         \/ Save_lock(t)
         \/ Save_write(t)

SpecClones == InitClones /\ [][NextClones]_vars

\* C18: every clone of a Session is a handle to the same cookie jar: whatever
\* the interleaving of the requests of the clones, a cookie written by a
\* request of one clone is carried by the later requests of every other clone,
\* and no clone holds a copy of the jar of its own.
C18_SharedJar ==
    /\ \A h \in 1..Len(clones.handles) :
         /\ clones.handles[h].cookie_store = session.cookie_store
         /\ clones.handles[h].client = session.client
    /\ Len(stores) = 1
    /\ \A t \in Tasks :
         clones.tasks[t].pc \in {"await", "got", "writing"} =>
             clones.tasks[t].cookies = clones.tasks[t].expect
C18_Witness ==
    /\ Len(clones.handles) = 2
    /\ clones.writer = 1
    /\ clones.tasks[2].pc = "await"
    /\ Cookie(API_HOST, "serviceToken", "new1") \in clones.tasks[2].cookies
    /\ Cookie(API_HOST, "serviceToken", "tok1") \notin clones.tasks[2].cookies

\* C19: the lock of the cookie jar is held by at most one operation at a time
\* and only during a synchronous critical section (save's serialization, the
\* read or the insertion of cookies); no operation is suspended on a network
\* await while it holds the lock, so a command never blocks another one for
\* the duration of a request.
C19_LockDiscipline ==
    /\ Cardinality(clones.holders) <= 1
    /\ \A t \in clones.holders : clones.tasks[t].pc \in {"reading", "writing", "saving"}
    /\ \A t \in Tasks : clones.tasks[t].pc \in {"await", "got"} => t \notin clones.holders
C19_Witness ==
    /\ clones.tasks[1].pc = "await"
    /\ clones.holders = {2}
    /\ clones.tasks[2].pc = "saving"

\* ---------------------------------------------------------------------------
\* Persistence: Xiaoai::save / load (xiaoai.rs 125-145), Mina::save / load
\* (mina.rs 170-188)
\* ---------------------------------------------------------------------------

\* the jars a Session can hold: at most one cookie per (domain, name), each
\* with a value and an expiry of any kind
JarKeys == { <<LOGIN_HOST, "passToken">>, <<API_HOST, "serviceToken">>,
             <<API_HOST, "userId">> }
JarValues == { "v" \o ToString(v) : v \in Variants }
Jars ==
    UNION { { { CookieWith(k[1], k[2], f[k].value, f[k].expires) : k \in Ks } :
                f \in [Ks -> [value : JarValues, expires : Expirations]] } :
            Ks \in SUBSET JarKeys }

\* session.save(&mut writer)
Persist_save ==
    /\ loaded = NoSession
    /\ authFile = Absent
    /\ authFile' = File(save(stores[session.cookie_store]))
    /\ UNCHANGED <<loginVars, cliPc, authFile0, rq, dc, poll, clones, loaded, relay, cli>>

\* Xiaoai::load(reader) / Mina::load(reader) of what save wrote: a new store
\* with the cookies of load_all, and a client bound to it
Persist_load ==
    /\ loaded = NoSession
    /\ authFile.tag = "file"
    /\ stores' = Append(stores, load_all(authFile.data.cookies))
    /\ loaded' = [client |-> Len(stores) + 1, cookie_store |-> Len(stores) + 1,
                  server |-> API_SERVER]
    /\ UNCHANGED <<impl, pc, creds, ret, login, session, log, resp, setByP3,
                   cliVars, rq, dc, poll, clones, relay, cli>>

\* the loaded Session is used: the cookies its first request carries
Persist_request ==
    /\ loaded # NoSession
    /\ log = <<>>
    /\ \E id \in random_request_id :
         log' = <<Request(0, "GET",
                          IF impl = "miai" THEN Xiaoai_get_url(DeviceList, id)
                          ELSE Mina_get_url(DeviceList, id),
                          NoForm, CookiesFor(stores[loaded.client], API_HOST))>>
    /\ UNCHANGED <<impl, pc, creds, ret, stores, login, session, resp, setByP3,
                   cliVars, rq, extVars>>

InitPersist ==
    /\ impl \in Impls
    /\ cliPc = "lib"
    /\ creds = NoCreds
    /\ pc = "done"
    /\ ret = Ok
    /\ \E S \in Jars : stores = <<S>>
    /\ login = NoLogin
    /\ session = [client |-> 1, cookie_store |-> 1, server |-> API_SERVER]
    /\ log = <<>>
    /\ resp = [p \in 1..3 |-> NoResp]
    /\ setByP3 = {}
    /\ authFile = Absent
    /\ authFile0 = Absent
    /\ rq = RqIdle
    /\ ExtIdle

NextPersist ==
    \/ Persist_save
    \/ Persist_load
    \/ Persist_request

SpecPersist == InitPersist /\ [][NextPersist]_vars

Triples(S) == { <<c.domain, c.name, c.value>> : c \in S }

\* C20: round trip: for every Session, load of the output of save yields a
\* Session whose jar holds exactly the same cookies (same domains, names and
\* values) as the original, the expired and the session-only (non-persistent)
\* ones included; none is dropped on save or on load.
C20_RoundTrip ==
    loaded # NoSession =>
        /\ Triples(stores[loaded.cookie_store]) = Triples(stores[session.cookie_store])
        /\ Cardinality(stores[loaded.cookie_store])
             = Cardinality(stores[session.cookie_store])
        /\ loaded.client = loaded.cookie_store
C20_Witness ==
    /\ loaded # NoSession
    /\ \E c \in stores[session.cookie_store] : is_expired(c)
    /\ \E c \in stores[session.cookie_store] : ~is_persistent(c)
    /\ \E c \in stores[loaded.cookie_store] : is_expired(c)
    /\ \E c \in stores[loaded.cookie_store] : ~is_persistent(c)
    /\ Cardinality(stores[loaded.cookie_store]) = 3

\* ---------------------------------------------------------------------------
\* Further claims about the login and the CLI's login command (SpecLogin)
\* ---------------------------------------------------------------------------

\* C30: in the CLI's login command, when the auth file exists and the user
\* declines to overwrite it, the file is left unchanged although the login
\* succeeded; the file is written only when it did not exist or the user
\* confirmed.
C30_DeclineKeepsFile ==
    /\ cli.tag = "confirm" /\ cli.answer = "no" =>
         /\ authFile = authFile0
         /\ cliPc = "exit_ok"
         /\ ret.tag = "Ok"
    /\ authFile # authFile0 =>
         \/ authFile0 = Absent
         \/ cli.tag = "confirm" /\ cli.answer = "yes"
C30_Witness ==
    /\ cli.tag = "confirm" /\ cli.answer = "no"
    /\ cliPc = "exit_ok"
    /\ session # NoSession
    /\ authFile0 = OldFile /\ authFile = OldFile
    /\ authFile # File(save(stores[session.cookie_store]))


\* the client_sign text written out for a nonce and an ssecurity
SignText(nonce, ssecurity) ==
    "base64(sha1(nonce=" \o ToString(nonce) \o "&" \o ssecurity \o "))"

\* C24: client_sign is a function of (nonce, ssecurity) alone: its digest
\* input is "nonce=", the decimal nonce, "&", the ssecurity, in that order;
\* equal inputs give equal output; and the clientSign value appended to the
\* phase-2 location in the phase-3 URL is this output for the nonce and the
\* ssecurity of the phase-2 response of the same login.
C24_ClientSign ==
    /\ \A n \in Variants, t \in Variants :
         /\ client_sign_input(n, "ssec" \o ToString(t)) =
              "nonce=" \o ToString(n) \o "&" \o "ssec" \o ToString(t)
         /\ \A loc \in Locations :
              client_sign([location |-> loc, nonce |-> n,
                           ssecurity |-> "ssec" \o ToString(t)])
                = SignText(n, "ssec" \o ToString(t))
    /\ Sent(3) =>
         LET auth == resp[2].body.payload.obj
             url  == log[3].url
             n    == Len(url)
         IN  /\ n >= Len(auth.location) + 3
             /\ SubSeq(url, 1, Len(auth.location)) = auth.location
             /\ SubSeq(url, n - 2, n) =
                  <<"clientSign", "=", SignText(auth.nonce, auth.ssecurity)>>
C24_Witness ==
    /\ Sent(3)
    /\ resp[2].body.payload.obj.nonce = 2
    /\ session # NoSession

\* C25: phase 3 succeeds whenever its response is 2xx, whatever the body
\* holds: an empty or non-JSON body still yields a Session.
C25_Phase3AnyBody ==
    Http2xx(3) =>
        \/ pc = "build"
        \/ pc = "done" /\ ret = Ok /\ session # NoSession

\* the body of a 2xx response to phase p does not decode: it is too short
\* for the prefix, or what follows the prefix is no JSON object with the
\* fields of the phase
Undecodable(p) ==
    /\ Http2xx(p)
    /\ \/ ~SliceOk(resp[p].body)
       \/ ~IsJson(Slice(resp[p].body))
       \/ p = 1 /\ ~IsLoginResponse(Slice(resp[p].body))
       \/ p = 2 /\ ~IsAuthResponse(Slice(resp[p].body))

\* C26: for every 2xx body of phase 1 or 2 that does not decode, a body
\* shorter than the 11-byte prefix or empty included, login ends by returning
\* a parse error; stripping the prefix never makes login crash.
C26_ShortBodyIsParseError ==
    /\ ret # Panic
    /\ \A p \in {1, 2} : Undecodable(p) => pc = "done" /\ ret = Err("Parse")


\* ---------------------------------------------------------------------------
\* Further claims about the front ends (SpecDevice)
\* ---------------------------------------------------------------------------

\* the commands the CLI and the relay have in common
SharedCommands == {"Play", "Pause", "Stop", "Volume", "Say", "Ask", "Status"}
\* the core operation of a shared command: <<function, argument>>
CommandTable(command) ==
    CASE command.cmd = "Play" /\ command.arg # None -> <<"play_url", Val(command.arg)>>
      [] command.cmd = "Play" /\ command.arg = None -> <<"set_play_state", "Play">>
      [] command.cmd = "Pause"  -> <<"set_play_state", "Pause">>
      [] command.cmd = "Stop"   -> <<"set_play_state", "Stop">>
      [] command.cmd = "Volume" -> <<"set_volume", Val(command.arg)>>
      [] command.cmd = "Say"    -> <<"tts", Val(command.arg)>>
      [] command.cmd = "Ask"    -> <<"nlp", Val(command.arg)>>
      [] command.cmd = "Status" -> <<"player_status", None>>
\* the function a front end's call ends in: player_status_parsed is
\* player_status with the data of its answer wrapped
CoreFunction(call) ==
    IF call.fn = "player_status_parsed" THEN "player_status" ELSE call.fn
FrontCommand ==
    dc.tag # "idle" /\ dc.front \in {"cli", "relay"} /\ dc.command.cmd \in SharedCommands

\* C27: the relay and the CLI map commands to core operations identically:
\* play with a url calls play_url, play without calls set_play_state(Play),
\* pause set_play_state(Pause), stop set_play_state(Stop), volume set_volume,
\* say tts, ask nlp, status player_status; no command triggers a login or a
\* save of the session.
C27_SameMapping ==
    /\ FrontCommand =>
         /\ CoreFunction(dc.call) = CommandTable(dc.command)[1]
         /\ (IF dc.call.arg = None THEN None ELSE Val(dc.call.arg))
              = CommandTable(dc.command)[2]
         /\ dc.call.fn = "player_status_parsed" =>
              dc.form = Xiaoai_player_status(DeviceId)
    /\ dc.tag # "idle" /\ dc.front \in {"cli", "relay"} =>
         /\ log = <<>> /\ login = NoLogin /\ pc = "done"
         /\ authFile = authFile0
         /\ Len(dc.requests) = 1
    /\ \A c \in CliCommands \cap ApiRequests : Cli_dispatch(c) = handle_request(c)
C27_Witness ==
    /\ dc.tag = "returned" /\ dc.result.tag = "Ok"
    /\ dc.front = "relay" /\ dc.command.cmd = "Stop"
    /\ dc.prev # None /\ dc.prev.call.fn = "play_url" /\ dc.prev.ok


\* ---------------------------------------------------------------------------
\* One run of a CLI command that needs the session: Cli::xiaoai, Cli::device_id
\* and the command (main.rs 38-97, 160-189)
\* ---------------------------------------------------------------------------

MaxDevices == 2

\* the auth files a run can find: none, one that is no JSON, and the saved
\* jars of a session: empty, with a live session token, with an expired one,
\* with the login token only
CliJars ==
    { {},
      {CookieWith(API_HOST, "serviceToken", "tok1", "AtUtc_future")},
      {CookieWith(API_HOST, "serviceToken", "tok1", "AtUtc_past")},
      {CookieWith(LOGIN_HOST, "passToken", "tok1", "SessionEnd")} }
AuthFiles == {Absent, Truncated} \cup { File(save(S)) : S \in CliJars }

\* --device-id of the command line, "none" when it is not given
DeviceArgs == {"none", "devArg"}

\* the DeviceInfo records of an account and the lists the server can return
DeviceInfo(k) ==
    [device_id |-> "dev" \o ToString(k), name |-> "name" \o ToString(k), hardware |-> "L16A"]
InfoList(n) == [k \in 1..n |-> DeviceInfo(k)]
ListDatas ==
    { [kind |-> "null"] } \cup { [kind |-> "array", items |-> InfoList(n)] : n \in 0..MaxDevices }
ListResponses ==
    { [tag |-> "neterr"] }
    \cup { [tag |-> "http", status |-> "non2xx", body |-> [pre |-> 0, payload |-> Garbage(3)]] }
    \cup { [tag |-> "http", status |-> "2xx", body |-> [pre |-> 0, payload |-> Garbage(3)]] }
    \cup { [tag |-> "http", status |-> "2xx",
            body |-> [pre |-> 0, payload |-> Object(EnvelopeObject(c, "ok", d))]] :
           c \in Codes, d \in ListDatas }

\* a load that refuses a jar without a live session token
Xiaoai_load_validating(file) ==
    IF file.tag # "file" THEN Err("Load")
    ELSE IF \E c \in load_all(file.data.cookies) :
              c.name = "serviceToken" /\ ~is_expired(c)
         THEN OkOf(load_all(file.data.cookies))
         ELSE Err("Load")
\* Xiaoai::load lines 133-144: load_all(reader)?, a client on the new store,
\* server = API_SERVER; the value is the jar of the Session
Xiaoai_load(file) ==
    IF file.tag # "file" THEN Err("Load")
    ELSE OkOf(load_all(file.data.cookies))

\* Xiaoai::device_info line 61: extract_data::<Vec<DeviceInfo>>
XiaoaiResponse_extract_data(res) ==
    IF res.tag = "Err" THEN res
    ELSE IF res.value.data.kind = "array" THEN OkOf(res.value.data.items)
    ELSE Err("Json")

CliStart(command, device_arg) ==
    [tag |-> "run", command |-> command, device_id_arg |-> device_arg,
     listed |-> FALSE, info |-> <<>>, device_id |-> "none", prompted |-> FALSE,
     result |-> Pending]

CliFrame == <<impl, pc, creds, ret, login, session, resp, setByP3, authFile,
              authFile0, rq, dc, poll, clones, relay>>

\* the GET of device_info on the loaded Session
DeviceListRequest(id) ==
    Request(0, "GET", Xiaoai_get_url(DeviceList, id), NoForm,
            CookiesFor(stores[loaded.client], API_HOST))

\* Cli::xiaoai lines 161-166: File::open(..)?, Xiaoai::load(..)
Cli_xiaoai ==
    /\ cliPc = "xiaoai"
    /\ IF authFile = Absent
       THEN cliPc' = "exit_err" /\ UNCHANGED <<stores, loaded>>
       ELSE LET res == Xiaoai_load(authFile) IN
            IF res.tag = "Err"
            THEN cliPc' = "exit_err" /\ UNCHANGED <<stores, loaded>>
            ELSE /\ stores' = Append(stores, res.value)
                 /\ loaded' = [client |-> Len(stores) + 1,
                               cookie_store |-> Len(stores) + 1, server |-> API_SERVER]
                 /\ cliPc' = "loaded"
    /\ UNCHANGED <<CliFrame, log, cli>>

\* main lines 40-41: the device command lists the devices itself
Cli_device_send ==
    /\ cliPc = "loaded"
    /\ cli.command.cmd = "Device"
    /\ \E id \in random_request_id : log' = Append(log, DeviceListRequest(id))
    /\ cliPc' = "device_wait"
    /\ UNCHANGED <<CliFrame, stores, loaded, cli>>
\* main lines 41-45
Cli_device_recv ==
    /\ cliPc = "device_wait"
    /\ \E r \in ListResponses :
         LET res == XiaoaiResponse_extract_data(Xiaoai_result(r)) IN
         /\ cli' = [cli EXCEPT !.result = res]
         /\ cliPc' = IF res.tag = "Ok" THEN "exit_ok" ELSE "exit_err"
    /\ UNCHANGED <<CliFrame, stores, loaded, log>>

\* a device_id that asks for the list although an id was given
Cli_device_id_always_lists ==
    /\ cliPc = "loaded"
    /\ cli.command.cmd # "Device"
    /\ \E id \in random_request_id : log' = Append(log, DeviceListRequest(id))
    /\ cliPc' = "list_wait"
    /\ UNCHANGED <<CliFrame, stores, loaded, cli>>
\* Cli::device_id lines 175-179: the id of the command line, or the request
\* of device_info
Cli_device_id ==
    /\ cliPc = "loaded"
    /\ cli.command.cmd # "Device"
    /\ IF cli.device_id_arg # "none"
       THEN /\ cli' = [cli EXCEPT !.device_id = cli.device_id_arg]
            /\ cliPc' = "command"
            /\ log' = log
       ELSE /\ \E id \in random_request_id : log' = Append(log, DeviceListRequest(id))
            /\ cli' = cli
            /\ cliPc' = "list_wait"
    /\ UNCHANGED <<CliFrame, stores, loaded>>

\* Cli::device_id lines 179-186: .context(..)?, ensure!(!info.is_empty()),
\* the only device, or the Select prompt
Cli_device_id_recv ==
    /\ cliPc = "list_wait"
    /\ \E r \in ListResponses :
         LET res == XiaoaiResponse_extract_data(Xiaoai_result(r)) IN
         IF res.tag = "Err"
         THEN cli' = [cli EXCEPT !.result = res] /\ cliPc' = "exit_err"
         ELSE IF res.value = <<>>
         THEN cli' = [cli EXCEPT !.listed = TRUE, !.info = res.value, !.result = Err("NoDevice")]
              /\ cliPc' = "exit_err"
         ELSE IF Len(res.value) = 1
         THEN cli' = [cli EXCEPT !.listed = TRUE, !.info = res.value, !.device_id = res.value[1].device_id]
              /\ cliPc' = "command"
         ELSE cli' = [cli EXCEPT !.listed = TRUE, !.info = res.value] /\ cliPc' = "select"
    /\ UNCHANGED <<CliFrame, stores, loaded, log>>

\* Cli::device_id lines 185-188: Select::new(..).prompt()?
Cli_select ==
    /\ cliPc = "select"
    /\ \/ \E k \in 1..Len(cli.info) :
            /\ cli' = [cli EXCEPT !.device_id = cli.info[k].device_id, !.prompted = TRUE]
            /\ cliPc' = "command"
       \/ /\ cli' = [cli EXCEPT !.prompted = TRUE, !.result = Err("Prompt")]
          /\ cliPc' = "exit_err"
    /\ UNCHANGED <<CliFrame, stores, loaded, log>>

\* main lines 50-68: the device function of the command sends its request
Cli_command_send ==
    /\ cliPc = "command"
    /\ \E id \in random_request_id :
         LET call == Cli_dispatch(cli.command)
             form == Xiaoai_form(call, cli.device_id)
         IN  log' = Append(log, Request(0, "POST", <<API_SERVER, "remote/ubus">>,
                                        form_insert(form, "requestId", id),
                                        CookiesFor(stores[loaded.client], API_HOST)))
    /\ cliPc' = "command_wait"
    /\ UNCHANGED <<CliFrame, stores, loaded, cli>>
\* main lines 50-96: `?` on the result, then the answer is printed
Cli_command_recv ==
    /\ cliPc = "command_wait"
    /\ \E r \in ApiResponses :
         LET res == ResultOf(Cli_dispatch(cli.command), r) IN
         /\ cli' = [cli EXCEPT !.result = IF res.tag = "Ok" THEN Ok ELSE Err(res.kind)]
         /\ cliPc' = IF res.tag = "Ok" THEN "exit_ok" ELSE "exit_err"
    /\ UNCHANGED <<CliFrame, stores, loaded, log>>

InitCli ==
    /\ impl = "miai"
    /\ cliPc = "xiaoai"
    /\ creds = NoCreds
    /\ pc = "done"
    /\ ret = Ok
    /\ stores = <<>>
    /\ login = NoLogin
    /\ session = NoSession
    /\ log = <<>>
    /\ resp = [p \in 1..3 |-> NoResp]
    /\ setByP3 = {}
    /\ authFile \in AuthFiles
    /\ authFile0 = authFile
    /\ rq = RqIdle
    /\ dc = Idle /\ poll = Idle /\ clones = Idle /\ relay = Idle
    /\ loaded = NoSession
    /\ \E command \in CliCommands, arg \in DeviceArgs : cli = CliStart(command, arg)

NextCli ==
    \/ Cli_xiaoai
    \/ Cli_device_send
    \/ Cli_device_recv
    \/ Cli_device_id
    \/ Cli_device_id_recv
    \/ Cli_select
    \/ Cli_command_send
    \/ Cli_command_recv

SpecCli == InitCli /\ [][NextCli]_vars

\* the requests of the run that ask for the device list / that post a command
ListRequests    == { i \in 1..Len(log) : log[i].method = "GET" }
CommandRequests == { i \in 1..Len(log) : log[i].method = "POST" }
WellFormed(file) == file.tag = "file"
LiveToken(S) == \E c \in S : c.name = "serviceToken" /\ c.domain = API_HOST /\ ~is_expired(c)

\* C21: load sends no request and checks no validity: it succeeds for every
\* well-formed persisted cookie file, one with no session token or with
\* expired cookies only included; the Session it returns targets the fixed
\* API base URL; an invalid session shows only when the first real request
\* fails.
C21_LoadNoCheck ==
    /\ cliPc = "loaded" =>
         /\ log = <<>>
         /\ loaded # NoSession
         /\ loaded.server = API_SERVER
         /\ { Serialize(c) : c \in stores[loaded.cookie_store] } = authFile.data.cookies
    /\ WellFormed(authFile) /\ cliPc # "xiaoai" => loaded # NoSession
    /\ ~WellFormed(authFile) => loaded = NoSession /\ log = <<>>
    /\ loaded # NoSession /\ ~LiveToken(stores[loaded.cookie_store]) =>
         /\ cliPc = "exit_err" => log # <<>>
         /\ \A i \in 1..Len(log) : log[i].cookies = {}
C21_Witness ==
    /\ cliPc = "exit_err"
    /\ loaded # NoSession
    /\ \E c \in stores[loaded.cookie_store] : c.name = "serviceToken" /\ is_expired(c)
    /\ Len(log) = 1 /\ log[1].cookies = {}
    /\ cli.result = Err("Request")

\* C29: device resolution of the CLI: with a device id on the command line no
\* device-list request is made and that id is used; otherwise exactly one
\* device-list request is made, an empty list ends the command with an error
\* before any device command is sent, and a list of exactly one device selects
\* that device without a prompt.
C29_DeviceResolution ==
    cli.command.cmd # "Device" =>
      /\ cli.device_id_arg # "none" =>
           /\ ListRequests = {}
           /\ ~cli.listed /\ ~cli.prompted
           /\ cliPc \in {"command", "command_wait", "exit_ok"} =>
                cli.device_id = cli.device_id_arg
           /\ \A i \in CommandRequests : log[i].form["deviceId"] = cli.device_id_arg
      /\ cli.device_id_arg = "none" =>
           /\ cliPc \notin {"xiaoai", "loaded"} /\ loaded # NoSession =>
                ListRequests = {1}
           /\ CommandRequests # {} => cli.listed
           /\ cli.listed /\ cli.info = <<>> =>
                cliPc = "exit_err" /\ CommandRequests = {}
           /\ cli.listed /\ Len(cli.info) = 1 =>
                /\ ~cli.prompted
                /\ cliPc \in {"command", "command_wait", "exit_ok", "exit_err"}
                /\ cli.device_id = cli.info[1].device_id
           /\ \A i \in CommandRequests :
                \E k \in 1..Len(cli.info) : log[i].form["deviceId"] = cli.info[k].device_id
C29_Witness ==
    /\ cli.device_id_arg = "none"
    /\ Len(cli.info) = 1
    /\ cliPc = "exit_ok"
    /\ cli.prompted = FALSE
    /\ Len(log) = 2 /\ log[2].form["deviceId"] = "dev1"


\* ---------------------------------------------------------------------------
\* The relay: connection handlers and the keyword broadcast (ws_server.rs)
\* ---------------------------------------------------------------------------

\* the connections the listener accepts; a connection's sender has its number
Conns == {1, 2}

\* ApiResponse lines 46-66, as the JSON objects serde writes
Success(code, message, data) ==
    [type |-> "success", code |-> code, message |-> message, data |-> data]
Error(error) == [type |-> "error", error |-> error]
Devices(devices) == [type |-> "devices", devices |-> devices]
NoApiResponse == [type |-> "none"]

\* the requests of a client that the model follows, and the API server's
\* answers to the core operation of a request
RelayRequests ==
    { [cmd |-> "Say", arg |-> Arg("text", "hello")],
      [cmd |-> "Status", arg |-> None], [cmd |-> "GetDevices", arg |-> None] }
RelayApiResponses ==
    { [tag |-> "neterr"] }
    \cup { [tag |-> "http", status |-> "2xx",
            body |-> [pre |-> 0, payload |-> Object(EnvelopeObject(c, "ok", "data"))]] :
           c \in Codes }

\* a relay that reports a failed call as a success
handle_request_response_hide_error(request, result) ==
    IF result.tag = "Ok" /\ request.cmd \notin {"Status", "GetDevices"}
    THEN Success(result.value.code, result.value.message, result.value.data)
    ELSE Success(0, "OK", "null")
\* handle_request lines 296-346: the ApiResponse for the result of the call
handle_request_response(request, result) ==
    CASE request.cmd = "Status" ->
           IF result.tag = "Ok" THEN Success(0, "OK", result.value.raw)
           ELSE Error(result.kind)
      [] request.cmd = "GetDevices" ->
           IF result.tag = "Ok" THEN Devices(result.value.devices)
           ELSE Error(result.kind)
      [] OTHER ->
           IF result.tag = "Ok"
           THEN Success(result.value.code, result.value.message, result.value.data)
           ELSE Error(result.kind)

\* what a handler holds of the inbound message it is working on: its kind,
\* the request, the envelope the API server answered with and the result of
\* the call until the reply is on its way, the response, the calls made and
\* the messages sent for it; after_invalid tells that the message before it
\* was a text that did not parse
NoEnvelope == [code |-> -1, message |-> "none", data |-> "none"]
ConnScratch(kind) ==
    [msg |-> kind, after_invalid |-> FALSE, req |-> NoCommand, envelope |-> NoEnvelope,
     result |-> Pending, response |-> NoApiResponse, calls |-> 0, sent |-> <<>>]
NextScratch(c, kind) ==
    [ConnScratch(kind) EXCEPT !.after_invalid = (relay.conns[c].msg = "invalid")]
ConnAt(at, scratch) == [f \in {"pc"} \cup DOMAIN scratch |->
                          IF f = "pc" THEN at ELSE scratch[f]]
BcIdle ==
    [pc |-> "idle", snapshot |-> <<>>, idx |-> 0, attempts |-> <<>>, disconnected |-> <<>>]
RelayInit ==
    [tag |-> "relay", clients |-> <<>>,
     conns |-> [c \in Conns |-> ConnAt("closed", ConnScratch("none"))],
     bc |-> BcIdle]

RelayFrame == <<loginVars, cliVars, rq, dc, poll, clones, loaded, cli>>

\* the locks, read off the positions of the tasks: the broadcast holds the
\* read lock of the client list while it iterates; a sender's mutex is held
\* by its handler while it sends a reply and by the broadcast while it
\* sends to that client
ReadLocked == relay.bc.pc \in {"iter", "sending"}
SenderFree(s) ==
    /\ relay.conns[s].pc # "sending"
    /\ ~(relay.bc.pc = "sending" /\ relay.clients[relay.bc.idx] = s)

SetConn(c, conn) == [relay EXCEPT !.conns[c] = conn]

\* run_server lines 101-110: accept and spawn handle_connection
Relay_accept(c) ==
    /\ relay.conns[c].pc = "closed"
    /\ relay' = SetConn(c, ConnAt("handshake", ConnScratch("none")))
    /\ UNCHANGED RelayFrame

\* handle_connection lines 211-217: accept_async(stream).await.context(..)?
Relay_handshake(c) ==
    /\ relay.conns[c].pc = "handshake"
    /\ \E ok \in BOOLEAN :
         relay' = SetConn(c, ConnAt(IF ok THEN "register" ELSE "ended_err",
                                    ConnScratch("none")))
    /\ UNCHANGED RelayFrame

\* lines 219-224: push the sender under the write lock
Relay_register(c) ==
    /\ relay.conns[c].pc = "register"
    /\ ~ReadLocked
    /\ relay' = [relay EXCEPT !.clients = Append(@, c),
                              !.conns[c] = ConnAt("recv", ConnScratch("none"))]
    /\ UNCHANGED RelayFrame

\* the kinds of what ws_receiver.next().await yields
InboundKinds == {"command", "invalid", "binary", "close", "error", "end"}

\* a handler that hangs up on a text it cannot parse
Relay_recv_strict(c) ==
    /\ relay.conns[c].pc = "recv"
    /\ \E kind \in InboundKinds :
         CASE kind = "error" ->
                relay' = SetConn(c, ConnAt("ended_err", NextScratch(c, kind)))
           [] kind \in {"close", "end", "invalid"} ->
                relay' = SetConn(c, ConnAt("unregister", NextScratch(c, kind)))
           [] kind = "binary" ->
                relay' = SetConn(c, ConnAt("recv", NextScratch(c, kind)))
           [] kind = "command" ->
                \E request \in RelayRequests :
                  relay' = SetConn(c, ConnAt("call", [NextScratch(c, kind) EXCEPT
                                                        !.req = request]))
    /\ UNCHANGED RelayFrame
\* lines 226-246: the next message: `msg?`, close, not text, the parse of a
\* text as ApiRequest
Relay_recv(c) ==
    /\ relay.conns[c].pc = "recv"
    /\ \E kind \in InboundKinds :
         CASE kind = "error" ->
                relay' = SetConn(c, ConnAt("ended_err", NextScratch(c, kind)))
           [] kind \in {"close", "end"} ->
                relay' = SetConn(c, ConnAt("unregister", NextScratch(c, kind)))
           [] kind = "binary" ->
                relay' = SetConn(c, ConnAt("recv", NextScratch(c, kind)))
           [] kind = "invalid" ->
                relay' = SetConn(c, ConnAt("reply", [NextScratch(c, kind) EXCEPT
                                    !.response = Error("invalid request")]))
           [] kind = "command" ->
                \E request \in RelayRequests :
                  relay' = SetConn(c, ConnAt("call", [NextScratch(c, kind) EXCEPT
                                                        !.req = request]))
    /\ UNCHANGED RelayFrame

\* lines 242-244 and handle_request: the core operation of the request is
\* called and awaited, its result becomes the ApiResponse
Relay_handle_request(c) ==
    /\ relay.conns[c].pc = "call"
    /\ \E r \in RelayApiResponses :
         LET conn   == relay.conns[c]
             result == ResultOf(handle_request(conn.req), r)
         IN  relay' = SetConn(c, [conn EXCEPT
                        !.pc = "reply", !.calls = @ + 1, !.result = result,
                        !.envelope = IF Xiaoai_result(r).tag = "Ok"
                                     THEN Xiaoai_result(r).value ELSE NoEnvelope,
                        !.response = handle_request_response(conn.req, result)])
    /\ UNCHANGED RelayFrame

\* line 254: ws_sender.lock().await
Relay_lock(c) ==
    /\ relay.conns[c].pc = "reply"
    /\ SenderFree(c)
    /\ relay' = SetConn(c, [relay.conns[c] EXCEPT !.pc = "sending",
                                                  !.req = NoCommand, !.result = Pending,
                                                  !.envelope = NoEnvelope])
    /\ UNCHANGED RelayFrame

\* line 255: sender.send(..).await?; the guard is dropped with the iteration
Relay_send(c) ==
    /\ relay.conns[c].pc = "sending"
    /\ \E ok \in BOOLEAN :
         relay' = SetConn(c, [relay.conns[c] EXCEPT
                    !.pc = IF ok THEN "recv" ELSE "ended_err",
                    !.sent = Append(@, [ok |-> ok, message |-> relay.conns[c].response])])
    /\ UNCHANGED RelayFrame

\* lines 258-263: retain under the write lock
Relay_unregister(c) ==
    /\ relay.conns[c].pc = "unregister"
    /\ ~ReadLocked
    /\ relay' = [relay EXCEPT
                   !.clients = SelectSeq(@, LAMBDA s : s # c),
                   !.conns[c] = [relay.conns[c] EXCEPT !.pc = "ended_ok"]]
    /\ UNCHANGED RelayFrame

\* start_keyword_watcher lines 147-162: the watcher reports a match and the
\* callback calls broadcast_message
Broadcast_start ==
    /\ relay.bc.pc = "idle"
    /\ relay' = [relay EXCEPT !.bc = [BcIdle EXCEPT !.pc = "read"]]
    /\ UNCHANGED RelayFrame

\* broadcast_message line 180: clients.read().await
Broadcast_read ==
    /\ relay.bc.pc = "read"
    /\ relay' = [relay EXCEPT !.bc = [@ EXCEPT !.pc = "iter", !.idx = 1,
                                               !.snapshot = relay.clients]]
    /\ UNCHANGED RelayFrame

\* a broadcast that writes to a sender without taking its lock
Broadcast_lock_no_wait ==
    /\ relay.bc.pc = "iter"
    /\ IF relay.bc.idx > Len(relay.clients)
       THEN relay' = [relay EXCEPT !.bc.pc =
                        IF relay.bc.disconnected = <<>> THEN "done" ELSE "cleanup"]
       ELSE relay' = [relay EXCEPT !.bc.pc = "sending"]
    /\ UNCHANGED RelayFrame
\* lines 183-184, 191: the next client's sender is locked, or the loop is over
\* and the read lock is dropped
Broadcast_lock ==
    /\ relay.bc.pc = "iter"
    /\ IF relay.bc.idx > Len(relay.clients)
       THEN relay' = [relay EXCEPT !.bc.pc =
                        IF relay.bc.disconnected = <<>> THEN "done" ELSE "cleanup"]
       ELSE /\ SenderFree(relay.clients[relay.bc.idx])
            /\ relay' = [relay EXCEPT !.bc.pc = "sending"]
    /\ UNCHANGED RelayFrame

\* a broadcast that gives up at the first client it cannot reach
Broadcast_send_until_failure ==
    /\ relay.bc.pc = "sending"
    /\ \E ok \in BOOLEAN :
         relay' = [relay EXCEPT !.bc = [@ EXCEPT
                     !.pc = "iter",
                     !.attempts = Append(@, [client |-> relay.clients[relay.bc.idx], ok |-> ok]),
                     !.disconnected = IF ok THEN @ ELSE Append(@, relay.bc.idx),
                     !.idx = IF ok THEN @ + 1 ELSE Len(relay.clients) + 1]]
    /\ UNCHANGED RelayFrame
\* lines 185-188: the send; a failure is noted and the loop goes on
Broadcast_send ==
    /\ relay.bc.pc = "sending"
    /\ \E ok \in BOOLEAN :
         relay' = [relay EXCEPT !.bc = [@ EXCEPT
                     !.pc = "iter",
                     !.attempts = Append(@, [client |-> relay.clients[relay.bc.idx], ok |-> ok]),
                     !.disconnected = IF ok THEN @ ELSE Append(@, relay.bc.idx),
                     !.idx = @ + 1]]
    /\ UNCHANGED RelayFrame

\* Vec::remove(idx): the list without position idx (counted from 1 here)
Vec_remove(list, idx) ==
    [k \in 1..(Len(list) - 1) |-> IF k < idx THEN list[k] ELSE list[k + 1]]
\* lines 196-199: remove the noted positions, the last one first; a position
\* past the end panics
RECURSIVE remove_rev(_, _)
remove_rev(list, idxs) ==
    IF idxs = <<>> THEN [panic |-> FALSE, list |-> list]
    ELSE LET idx == idxs[Len(idxs)] IN
         IF idx > Len(list) THEN [panic |-> TRUE, list |-> list]
         ELSE remove_rev(Vec_remove(list, idx), SubSeq(idxs, 1, Len(idxs) - 1))

\* lines 194-200: the cleanup under the write lock
Broadcast_cleanup ==
    /\ relay.bc.pc = "cleanup"
    /\ LET res == remove_rev(relay.clients, relay.bc.disconnected) IN
       relay' = [relay EXCEPT !.clients = res.list,
                              !.bc.pc = IF res.panic THEN "panicked" ELSE "done"]
    /\ UNCHANGED RelayFrame

\* the callback returns; the watcher goes on to the next match
Broadcast_return ==
    /\ relay.bc.pc = "done"
    /\ relay' = [relay EXCEPT !.bc.pc = "idle"]
    /\ UNCHANGED RelayFrame

InitRelay ==
    /\ impl = "miai"
    /\ cliPc = "lib"
    /\ creds = NoCreds
    /\ pc = "done"
    /\ ret = Ok
    /\ stores = << {Cookie(API_HOST, "serviceToken", "tok1")} >>
    /\ login = NoLogin
    /\ session = [client |-> 1, cookie_store |-> 1, server |-> API_SERVER]
    /\ log = <<>>
    /\ resp = [p \in 1..3 |-> NoResp]
    /\ setByP3 = {}
    /\ authFile = Absent
    /\ authFile0 = Absent
    /\ rq = RqIdle
    /\ dc = Idle /\ poll = Idle /\ clones = Idle /\ loaded = NoSession /\ cli = Idle
    /\ relay = RelayInit

NextRelay ==
    \/ \E c \in Conns : Relay_accept(c)
    \/ \E c \in Conns : Relay_handshake(c)
    \/ \E c \in Conns : Relay_register(c)
    \/ \E c \in Conns : Relay_recv(c)
    \/ \E c \in Conns : Relay_handle_request(c)
    \/ \E c \in Conns : Relay_lock(c)
    \/ \E c \in Conns : Relay_send(c)
    \/ \E c \in Conns : Relay_unregister(c)
    \/ Broadcast_start
    \/ Broadcast_read
    \/ Broadcast_lock
    \/ Broadcast_send
    \/ Broadcast_cleanup
    \/ Broadcast_return

SpecRelay == InitRelay /\ [][NextRelay]_vars


\* the messages a handler has sent for the inbound message it holds
SentFor(conn) == [i \in 1..Len(conn.sent) |-> conn.sent[i].message]
\* the course of a handler that holds a command: no call before the call,
\* one call and then one message, the response
OneCallOneMessage(conn) ==
    /\ conn.calls <= 1 /\ Len(conn.sent) <= 1
    /\ conn.pc = "call" => conn.calls = 0 /\ conn.sent = <<>>
    /\ conn.pc \in {"reply", "sending"} => conn.calls = 1 /\ conn.sent = <<>>
    /\ conn.pc \in {"recv", "ended_err"} =>
         /\ conn.calls = 1
         /\ SentFor(conn) = <<conn.response>>
         /\ conn.sent[1].ok <=> conn.pc = "recv"
    /\ conn.pc \in {"call", "reply", "sending", "recv", "ended_err"}

\* C22, as stated: for every inbound message that parses as a command the
\* relay makes exactly one core operation call and then sends exactly one
\* outbound message on the same connection: a success message carrying the
\* envelope's code, message and data when the call succeeded, an error message
\* when it failed.
C22_Original ==
    \A c \in Conns :
      LET conn == relay.conns[c] IN
      conn.msg = "command" =>
        /\ OneCallOneMessage(conn)
        /\ conn.pc = "reply" =>
             IF conn.result.tag = "Ok"
             THEN conn.response = Success(conn.envelope.code, conn.envelope.message,
                                          conn.envelope.data)
             ELSE conn.response.type = "error"

\* C22, amended: for every inbound message that parses as a command the relay
\* makes exactly one core operation call and then sends exactly one outbound
\* message on the same connection: when the call failed an error message; when
\* it succeeded, for say, play, pause, stop, volume and ask a success message
\* carrying the envelope's code, message and data, for status a success
\* message with code 0, the message "OK" and the envelope's data, for
\* get_devices a devices message with the device list.
C22_Amended ==
    \A c \in Conns :
      LET conn == relay.conns[c] IN
      conn.msg = "command" =>
        /\ OneCallOneMessage(conn)
        /\ conn.pc = "reply" =>
             IF conn.result.tag # "Ok" THEN conn.response.type = "error"
             ELSE CASE conn.req.cmd = "Status" ->
                         conn.response = Success(0, "OK", conn.envelope.data)
                    [] conn.req.cmd = "GetDevices" ->
                         /\ conn.response.type = "devices"
                         /\ conn.response.devices = conn.envelope.data
                    [] OTHER ->
                         conn.response = Success(conn.envelope.code, conn.envelope.message,
                                                 conn.envelope.data)
C22_Witness ==
    /\ relay.conns[1].msg = "command" /\ relay.conns[1].pc = "recv"
    /\ relay.conns[1].sent = <<[ok |-> TRUE, message |-> Success(0, "OK", "data")]>>
    /\ relay.conns[2].msg = "command" /\ relay.conns[2].pc = "recv"
    /\ relay.conns[2].sent = <<[ok |-> TRUE, message |-> Success(0, "ok", "data")]>>

\* the clients the broadcast has tried to send to, in order
Attempted == [i \in 1..Len(relay.bc.attempts) |-> relay.bc.attempts[i].client]

\* C23: a keyword-match broadcast attempts to send the message exactly once
\* to every client that is in the relay's client list when the broadcast
\* starts (takes the list); a failed send to one client does not prevent the
\* sends to the clients after it.
C23_BroadcastToAll ==
    LET bc == relay.bc IN
    /\ bc.pc \in {"iter", "sending"} =>
         /\ relay.clients = bc.snapshot
         /\ Attempted = SubSeq(bc.snapshot, 1, bc.idx - 1)
    /\ bc.pc \in {"cleanup", "done", "panicked"} => Attempted = bc.snapshot
    /\ \A i \in 1..Len(bc.attempts), j \in 1..Len(bc.attempts) :
         bc.attempts[i].client = bc.attempts[j].client => i = j
C23_Witness ==
    /\ relay.bc.pc = "cleanup"
    /\ Len(relay.bc.snapshot) = 2
    /\ ~relay.bc.attempts[1].ok
    /\ relay.bc.attempts[2].ok

\* C28: an inbound text that does not parse as a known command causes no core
\* operation call, is answered with exactly one error message and leaves the
\* connection open, so that later messages on it are processed; a message
\* that is neither text nor close is ignored without a response; a close
\* message ends the loop of the connection.
C28_UnknownMessages ==
    \A c \in Conns :
      LET conn == relay.conns[c] IN
      /\ conn.msg = "invalid" =>
           /\ conn.calls = 0
           /\ conn.response.type = "error"
           /\ conn.pc \in {"reply", "sending", "recv", "ended_err"}
           /\ conn.pc \in {"reply", "sending"} => conn.sent = <<>>
           /\ conn.pc \in {"recv", "ended_err"} =>
                /\ SentFor(conn) = <<conn.response>>
                /\ conn.sent[1].ok <=> conn.pc = "recv"
      /\ conn.msg = "binary" =>
           /\ conn.pc = "recv"
           /\ conn.calls = 0 /\ conn.sent = <<>> /\ conn.response = NoApiResponse
      /\ conn.msg = "close" =>
           /\ conn.pc \in {"unregister", "ended_ok"}
           /\ conn.calls = 0 /\ conn.sent = <<>>
C28_Witness ==
    /\ relay.conns[1].after_invalid
    /\ relay.conns[1].msg = "command" /\ relay.conns[1].pc = "recv"
    /\ relay.conns[1].response.type = "devices"
    /\ relay.conns[2].msg = "binary"
    /\ relay.conns[2].after_invalid


\* ---------------------------------------------------------------------------
\* Claims about the relay's client list and its locks (SpecRelay)
\* ---------------------------------------------------------------------------

\* the sender of connection c is in the client list
Registered(c) == \E i \in 1..Len(relay.clients) : relay.clients[i] = c
\* the handler of c has returned / is in its message loop
HandlerEnded(c)  == relay.conns[c].pc \in {"ended_ok", "ended_err"}
HandlerInLoop(c) == relay.conns[c].pc \in {"recv", "call", "reply", "sending"}

\* C31: the client registry: once the handler of a connection has ended, for
\* whatever reason (close message, end of stream, receive error, decoding
\* error, failed send of a response), its sender is no longer in the shared
\* client list; the list holds exactly the senders of the connections whose
\* handler is still running after the handshake (a handler that waits for the
\* write lock to register or to unregister may be on either side).
C31_Registry ==
    /\ \A c \in Conns :
         /\ HandlerEnded(c) => ~Registered(c)
         /\ HandlerInLoop(c) => Registered(c)
         /\ relay.conns[c].pc \in {"closed", "handshake"} => ~Registered(c)
    /\ \A i \in 1..Len(relay.clients), j \in 1..Len(relay.clients) :
         relay.clients[i] = relay.clients[j] => i = j


\* the clients the broadcast could not send to
FailedClients ==
    { relay.bc.attempts[i].client :
        i \in { k \in 1..Len(relay.bc.attempts) : ~relay.bc.attempts[k].ok } }
\* the step in which the broadcast cleans the list up
CleanupStep == relay.bc.pc = "cleanup" /\ relay'.bc.pc # "cleanup"

\* C32: under every interleaving of a broadcast with connections that open
\* and close, the cleanup of broadcast_message removes from the client list
\* exactly the clients whose send failed in that broadcast: never a client
\* whose send succeeded or that registered meanwhile, and never a position
\* past the end of the list, although the positions are noted under the read
\* lock and applied later under the write lock.
C32_CleanupExact ==
    [][CleanupStep =>
         /\ relay'.bc.pc = "done"
         /\ relay'.clients = SelectSeq(relay.clients, LAMBDA s : s \notin FailedClients)
      ]_vars


\* the tasks of the relay: the handler of each connection, numbered as the
\* connection, and after them the broadcast
BroadcastTask == Cardinality(Conns) + 1
RelayTasks == Conns \cup {BroadcastTask}

\* the locks a task holds and the lock it is waiting for
HoldsRead(t) == t = BroadcastTask /\ ReadLocked
HoldsSender(t, s) ==
    \/ t = s /\ relay.conns[s].pc = "sending"
    \/ /\ t = BroadcastTask /\ relay.bc.pc = "sending"
       /\ relay.clients[relay.bc.idx] = s
WantsWrite(t) ==
    \/ t \in Conns /\ relay.conns[t].pc \in {"register", "unregister"}
    \/ t = BroadcastTask /\ relay.bc.pc = "cleanup"
WantsSender(t, s) ==
    \/ t = s /\ relay.conns[s].pc = "reply"
    \/ /\ t = BroadcastTask /\ relay.bc.pc = "iter"
       /\ relay.bc.idx <= Len(relay.clients)
       /\ relay.clients[relay.bc.idx] = s
\* t waits for a lock that u holds
WaitsFor(t, u) ==
    /\ t # u
    /\ \/ WantsWrite(t) /\ HoldsRead(u)
       \/ \E s \in Conns : WantsSender(t, s) /\ HoldsSender(u, s)
\* u can be reached from t along n or fewer waits
RECURSIVE WaitsWithin(_, _, _)
WaitsWithin(t, u, n) ==
    IF n = 0 THEN FALSE
    ELSE \/ WaitsFor(t, u)
         \/ \E v \in RelayTasks : WaitsFor(t, v) /\ WaitsWithin(v, u, n - 1)

\* C33: the locks of the relay cannot deadlock: with the handlers (write lock
\* of the client list to register and unregister, their own sender lock to
\* reply) running beside a broadcast (read lock of the list held while it
\* takes each sender lock in turn), no reachable state has a cycle of tasks
\* each waiting for a lock another holds, the task at the end of every chain
\* of waits can take its next step, and never do two tasks write to the same
\* sender at once.
C33_NoDeadlock ==
    /\ \A t \in RelayTasks : ~WaitsWithin(t, t, Cardinality(RelayTasks))
    /\ \A u \in RelayTasks :
         /\ \E t \in RelayTasks : WaitsFor(t, u)
         /\ \A v \in RelayTasks : ~WaitsFor(u, v)
         => IF u = BroadcastTask
            THEN ENABLED Broadcast_lock \/ ENABLED Broadcast_send
            ELSE ENABLED Relay_send(u)
    /\ \A s \in Conns : Cardinality({ t \in RelayTasks : HoldsSender(t, s) }) <= 1
    /\ \A s \in Conns : \A t \in RelayTasks : HoldsSender(t, s) => ~WantsWrite(t)
\* a handler waits for the write lock while the broadcast, holding the read
\* lock, waits for the sender that another handler is writing to
C33_Witness ==
    /\ WaitsFor(1, BroadcastTask)
    /\ WaitsFor(BroadcastTask, 2)
    /\ relay.conns[1].pc = "register"
    /\ HoldsSender(2, 2)

=============================================================================
